---- MODULE Spec2Model ----
(***************************************************************************)
(* A state-machine model of the PortKiller front-end engine (App.tsx):     *)
(* the poller and change tracker (fetchPorts), the fuzzy ranker            *)
(* (fuzzyScore / fuzzyMatch / filteredPorts), the selection model          *)
(* (handlePortClick), and the two-click kill confirmation gate             *)
(* (requestKill / executeKill / requestBulkKill / executeBulkKill).        *)
(*                                                                         *)
(* One step of the model is one browser task: an event handler, a timer    *)
(* callback, or the continuation of an awaited invoke().  Preact re-renders*)
(* and runs its effects between tasks, so every handler sees the callbacks *)
(* of the latest render; values that a child component received as props   *)
(* when it was opened (detailsPort, contextMenu.port) are state variables  *)
(* of their own.                                                           *)
(*                                                                         *)
(* Strings are sequences of one-character strings.  Timers are modelled by *)
(* the delay they were armed with; an armed timer may fire at any later    *)
(* step.                                                                   *)
(***************************************************************************)
EXTENDS Integers, Sequences, FiniteSets, TLC

\* ------------------------------------------------------------------------
\* Bounds of the model
\* ------------------------------------------------------------------------

\* Longest inventory the collaborator returns.
MaxPorts == 2

\* Most get_listening_ports calls in flight at once that the model follows.
MaxInFlight == 2

\* Most single kill_process calls in flight at once that the model follows.
MaxKills == 2

\* Most 500 ms follow-up refresh timers pending at once.
MaxFollowUps == 1

\* Port numbers and process ids the inventory collaborator reports.
PortSet == {1, 2}
PidSet == {1, 2}

\* ------------------------------------------------------------------------
\* Strings
\* ------------------------------------------------------------------------

Digits == <<"0", "1", "2", "3", "4", "5", "6", "7", "8", "9">>

IsDigit(c) == \E i \in 1..10 : Digits[i] = c

DigitValue(c) == (CHOOSE i \in 1..10 : Digits[i] = c) - 1

\* Number.prototype.toString() of a non-negative integer.
RECURSIVE NumStr(_)
NumStr(n) ==
    IF n < 10 THEN <<Digits[n + 1]>>
    ELSE NumStr(n \div 10) \o <<Digits[(n % 10) + 1]>>

IsSpace(c) == c = " "

\* String.prototype.toLowerCase(), character by character.
LowerChar(c) ==
    CASE c = "A" -> "a"
      [] c = "B" -> "b"
      [] c = "K" -> "k"
      [] c = "I" -> "i"
      [] c = "L" -> "l"
      [] OTHER -> c

ToLower(s) == [i \in 1..Len(s) |-> LowerChar(s[i])]

\* String.prototype.trim().
RECURSIVE TrimLeft(_)
TrimLeft(s) ==
    IF s # <<>> /\ IsSpace(Head(s)) THEN TrimLeft(Tail(s)) ELSE s

RECURSIVE TrimRight(_)
TrimRight(s) ==
    IF s # <<>> /\ IsSpace(s[Len(s)])
    THEN TrimRight(SubSeq(s, 1, Len(s) - 1))
    ELSE s

Trim(s) == TrimRight(TrimLeft(s))

\* String.prototype.startsWith().
StartsWith(s, p) == Len(s) >= Len(p) /\ SubSeq(s, 1, Len(p)) = p

\* String.prototype.includes(): p occurs in s as a contiguous substring.
Includes(s, p) ==
    \E i \in 0..(Len(s) - Len(p)) : SubSeq(s, i + 1, i + Len(p)) = p

\* String.prototype.slice(n).
Slice(s, n) == SubSeq(s, n + 1, Len(s))

\* The longest prefix of s made of decimal digits.
RECURSIVE DigitPrefix(_)
DigitPrefix(s) ==
    IF s # <<>> /\ IsDigit(Head(s))
    THEN <<Head(s)>> \o DigitPrefix(Tail(s))
    ELSE <<>>

RECURSIVE DigitsValue(_, _)
DigitsValue(s, acc) ==
    IF s = <<>> THEN acc
    ELSE DigitsValue(Tail(s), acc * 10 + DigitValue(Head(s)))

\* parseInt(s, 10): leading white space is skipped, an optional sign is read,
\* then the longest run of digits; isNaN is TRUE when there is no digit.
ParseInt(s) ==
    LET t == TrimLeft(s)
        neg == t # <<>> /\ Head(t) = "-"
        u == IF t # <<>> /\ (Head(t) = "-" \/ Head(t) = "+") THEN Tail(t) ELSE t
        d == DigitPrefix(u)
    IN  IF d = <<>> THEN [isNaN |-> TRUE, value |-> 0]
        ELSE [isNaN |-> FALSE,
              value |-> IF neg THEN 0 - DigitsValue(d, 0) ELSE DigitsValue(d, 0)]

\* ------------------------------------------------------------------------
\* Data model (types.ts)
\* ------------------------------------------------------------------------

\* process_name of the process with a given pid.
ProcessName(pid) == IF pid = 1 THEN <<"a", "b">> ELSE <<"B", "1">>

\* PortInfo records the collaborator can report.
PortInfo ==
    { [port |-> p, pid |-> q, is_protected |-> b, process_name |-> ProcessName(q)] :
        p \in PortSet, q \in PidSet, b \in BOOLEAN }

\* `${p.port}-${p.pid}`
Key(p) == <<p.port, p.pid>>

\* null for values that are otherwise a PortInfo or an AppState
NULL == [null |-> TRUE]

\* null for pendingKill (otherwise a key)
NoKey == <<>>

\* null for killingPort (otherwise a port number, which is at least 1)
NoPort == 0

Range(s) == {s[i] : i \in 1..Len(s)}

\* Sequences over S of length at most n without two elements of the same key.
RECURSIVE SeqsUpTo(_, _)
SeqsUpTo(S, n) ==
    IF n = 0 THEN {<<>>}
    ELSE LET shorter == SeqsUpTo(S, n - 1)
         IN  shorter \cup
             { Append(s, e) : s \in {t \in shorter : Len(t) = n - 1},
                              e \in S }

DistinctKeys(s) == \A i, j \in 1..Len(s) : i # j => Key(s[i]) # Key(s[j])

\* The port lists get_listening_ports can return over the entries E: one row
\* per (port, pid).
InventoriesOver(E) == {s \in SeqsUpTo(E, MaxPorts) : DistinctKeys(s)}

\* ------------------------------------------------------------------------
\* Fuzzy ranker (fuzzyScore, fuzzyMatch, filteredPorts)
\* ------------------------------------------------------------------------

\* Scores are kept as integers: a score of the program is ScoreUnit times
\* smaller.  60 is divisible by every target length up to 6, so the quotient
\* (q.length / t.length) * 50 is exact.
ScoreUnit == 60

\* The loop of fuzzyScore: walks t once from position i, consuming the
\* characters of q in order from qIdx; the result is the final qIdx.
RECURSIVE Consume(_, _, _, _)
Consume(q, t, i, qIdx) ==
    IF i > Len(t) \/ qIdx >= Len(q) THEN qIdx
    ELSE IF t[i] = q[qIdx + 1] THEN Consume(q, t, i + 1, qIdx + 1)
         ELSE Consume(q, t, i + 1, qIdx)

\* fuzzyScore with 20 points for each matched character.
fuzzyScoreStep20(query, target) ==
    LET q == ToLower(query)
        t == ToLower(target)
    IN  IF Includes(t, q)
        THEN 100 * ScoreUnit + (Len(q) * 50 * ScoreUnit) \div Len(t)
        ELSE IF Consume(q, t, 1, 0) = Len(q)
             THEN 20 * Len(q) * ScoreUnit
             ELSE 0

\* fuzzyScore without its final test qIdx === q.length: the points of the
\* characters matched so far are returned even when the query is not consumed.
fuzzyScorePartial(query, target) ==
    LET q == ToLower(query)
        t == ToLower(target)
    IN  IF Includes(t, q)
        THEN 100 * ScoreUnit + (Len(q) * 50 * ScoreUnit) \div Len(t)
        ELSE 10 * Consume(q, t, 1, 0) * ScoreUnit

fuzzyScore(query, target) ==
    LET q == ToLower(query)
        t == ToLower(target)
    IN  IF Includes(t, q)
        THEN 100 * ScoreUnit + (Len(q) * 50 * ScoreUnit) \div Len(t)
        ELSE IF Consume(q, t, 1, 0) = Len(q)
             THEN 10 * Len(q) * ScoreUnit
             ELSE 0

Max2(a, b) == IF a >= b THEN a ELSE b

\* fuzzyMatch without the pid among its candidate strings.
fuzzyMatchNoPid(query, port) ==
    Max2(fuzzyScore(query, NumStr(port.port)) * 2,
         fuzzyScore(query, port.process_name))

fuzzyMatch(query, port) ==
    Max2(fuzzyScore(query, NumStr(port.port)) * 2,
         Max2(fuzzyScore(query, port.process_name),
              fuzzyScore(query, NumStr(port.pid))))

\* Array.prototype.sort((a, b) => b.score - a.score): stable, descending.
\* An insertion that places an entry before the entries of equal score.
RECURSIVE InsertByScoreUnstable(_, _, _)
InsertByScoreUnstable(sorted, e, query) ==
    IF sorted = <<>> THEN <<e>>
    ELSE IF fuzzyMatch(query, Head(sorted)) > fuzzyMatch(query, e)
         THEN <<Head(sorted)>> \o InsertByScoreUnstable(Tail(sorted), e, query)
         ELSE <<e>> \o sorted

RECURSIVE InsertByScore(_, _, _)
InsertByScore(sorted, e, query) ==
    IF sorted = <<>> THEN <<e>>
    ELSE IF fuzzyMatch(query, Head(sorted)) >= fuzzyMatch(query, e)
         THEN <<Head(sorted)>> \o InsertByScore(Tail(sorted), e, query)
         ELSE <<e>> \o sorted

RECURSIVE SortByScore(_, _, _)
SortByScore(done, todo, query) ==
    IF todo = <<>> THEN done
    ELSE SortByScore(InsertByScore(done, Head(todo), query), Tail(todo), query)

\* The ranked view with `if (!searchQuery) return []` for its second line.
RankedEmptyOnNoQuery(st, query) ==
    IF st = NULL \/ query = <<>> THEN <<>>
    ELSE LET Matches(p) == fuzzyMatch(query, p) > 0
         IN  SortByScore(<<>>, SelectSeq(st.ports, Matches), query)

\* The ranked view for a snapshot st (an AppState or NULL) and a query.
Ranked(st, query) ==
    IF st = NULL THEN <<>>
    ELSE IF query = <<>> THEN st.ports
    ELSE LET Matches(p) == fuzzyMatch(query, p) > 0
         IN  SortByScore(<<>>, SelectSeq(st.ports, Matches), query)

\* Array.prototype.find(p => p.port === portNum): the first such entry.
FindByPort(ports, portNum) ==
    IF \E i \in 1..Len(ports) : ports[i].port = portNum
    THEN ports[CHOOSE i \in 1..Len(ports) :
                 /\ ports[i].port = portNum
                 /\ \A j \in 1..(i - 1) : ports[j].port # portNum]
    ELSE NULL

\* portMap.get(port): state.ports.forEach(p => map.set(p.port, p)) keeps the
\* last entry of each port number.
PortMapGet(st, portNum) ==
    IF st # NULL /\ \E i \in 1..Len(st.ports) : st.ports[i].port = portNum
    THEN st.ports[CHOOSE i \in 1..Len(st.ports) :
                    /\ st.ports[i].port = portNum
                    /\ \A j \in (i + 1)..Len(st.ports) : st.ports[j].port # portNum]
    ELSE NULL

\* ------------------------------------------------------------------------
\* State of the App component
\* ------------------------------------------------------------------------

VARIABLES
    state,            \* useState<AppState | null>: NULL or [ports |-> <<PortInfo>>]
    prevPorts,        \* prevPortsRef: the keys of the last applied snapshot
    portChanges,      \* useState<Map<string, ChangeState>>: a function on keys
    changeTimers,     \* changeTimersRef: pending expiry timers, counted per key
    fetches,          \* get_listening_ports calls in flight, oldest first; each
                      \* is TRUE once a call started after it has been applied
    loading,          \* useState(true)
    error,            \* useState<string | null>: "" stands for null
    searchQuery,      \* useState('')
    selectedIndex,    \* useState(-1)
    selectedPorts,    \* useState<Set<string>>
    pendingKill,      \* useState<string | null>
    pendingBulkKill,  \* useState(false)
    confirmTimer,     \* confirmTimerRef: delay of the armed timer, 0 if none
    killingPort,      \* useState<number | null>
    kills,            \* kill_process calls of executeKill in flight
    bulkKills,        \* batches of executeBulkKill awaiting Promise.allSettled
    followUps,        \* pending setTimeout(fetchPorts, 500) timers
    toast,            \* useState<{message, type} | null>
    toastTimer,       \* toastTimerRef: delay of the armed timer, 0 if none
    detailsPort,      \* useState<PortInfo | null>
    contextMenu,      \* useState<{x, y, port} | null>: the port, or NULL
    invoked,          \* the kill_process calls issued by the latest step
    event,            \* the handler the latest step ran, with its PortInfo
    askedBulk,        \* while a bulk kill is pending: how many entries were
                      \* killable when it was requested; 0 otherwise
    mounted,          \* the App component is mounted: its effects' cleanups
                      \* have not run
    scored,           \* the latest call of fuzzyScore: its arguments, and
                      \* its result once it has returned
    showSettings,     \* useState(false)
    customPorts,      \* useState(loadCustomPorts())
    storedPorts,      \* localStorage item portkiller_custom_ports: its JSON
                      \* text, <<>> when the item is absent
    settingsPorts,    \* SettingsPanel's useState `ports` while the panel is
                      \* mounted, <<>> while it is not
    savedPorts        \* the list the panel held at the latest Save, <<>>
                      \* before the first one

vars == <<state, prevPorts, portChanges, changeTimers, fetches, loading, error,
          searchQuery, selectedIndex, selectedPorts, pendingKill,
          pendingBulkKill, confirmTimer, killingPort, kills, bulkKills,
          followUps, toast, toastTimer, detailsPort, contextMenu, invoked,
          event, askedBulk, mounted, scored, showSettings, customPorts,
          storedPorts, settingsPorts, savedPorts>>

pollVars == <<state, prevPorts, portChanges, changeTimers, loading, error>>
viewVars == <<searchQuery, selectedIndex, selectedPorts>>
gateVars == <<pendingKill, pendingBulkKill, confirmTimer, askedBulk>>
killVars == <<killingPort, kills, bulkKills>>
toastVars == <<toast, toastTimer>>
panelVars == <<detailsPort, contextMenu>>
settingsVars == <<showSettings, customPorts, storedPorts, settingsPorts,
                  savedPorts>>

\* Timer delays of the program, in ms.
ConfirmMs == 3000
ChangeMs == 3000
PollMs == 2000
FollowUpMs == 500
ToastErrorMs == 5000
ToastSuccessMs == 3000

\* ------------------------------------------------------------------------
\* The common-port list and its storage (types.ts)
\* ------------------------------------------------------------------------

CommonPort(port, description) ==
    [port |-> port, label |-> NumStr(port), description |-> description]

COMMON_PORTS ==
    << CommonPort(3000, "React/Node"), CommonPort(8080, "Spring/Tomcat"),
       CommonPort(5000, "Flask"), CommonPort(5432, "PostgreSQL"),
       CommonPort(8000, "Django"), CommonPort(4200, "Angular"),
       CommonPort(3001, "Dev Server"), CommonPort(5173, "Vite") >>

\* loadCustomPorts(): JSON.parse of the item, the objects with the members
\* the text names; [] when there is no item.
loadCustomPorts ==
    IF storedPorts # <<>>
    THEN [i \in 1..Len(storedPorts) |->
            [port |-> storedPorts[i][2], label |-> storedPorts[i][4],
             description |-> storedPorts[i][6]]]
    ELSE <<>>

\* saveCustomPorts(list): the item afterwards.  removeItem for the empty
\* list; otherwise JSON.stringify, per element the members in insertion
\* order, each name followed by its value.
saveCustomPorts(list) ==
    IF Len(list) = 0 THEN <<>>
    ELSE [i \in 1..Len(list) |->
            <<"port", list[i].port, "label", list[i].label,
              "description", list[i].description>>]

\* The mount effect calls fetchPorts() once: the state after the first render
\* and its effects.
\* No call of fuzzyScore is under observation.
NotScored == [query |-> <<>>, target |-> <<>>, score |-> 0, returned |-> FALSE]

InitApp ==
    /\ state = NULL
    /\ prevPorts = {}
    /\ portChanges = <<>>
    /\ changeTimers = [k \in {} |-> 0]
    /\ fetches = <<FALSE>>
    /\ loading = TRUE
    /\ error = ""
    /\ searchQuery = <<>>
    /\ selectedIndex = -1
    /\ selectedPorts = {}
    /\ pendingKill = NoKey
    /\ pendingBulkKill = FALSE
    /\ confirmTimer = 0
    /\ killingPort = NoPort
    /\ kills = <<>>
    /\ bulkKills = <<>>
    /\ followUps = 0
    /\ toast = NULL
    /\ toastTimer = 0
    /\ detailsPort = NULL
    /\ contextMenu = NULL
    /\ invoked = <<>>
    /\ event = [op |-> "other", port |-> NULL, was |-> NoKey, asked |-> 0]
    /\ askedBulk = 0
    /\ mounted = TRUE
    /\ showSettings = FALSE
    /\ storedPorts = <<>>
    /\ customPorts = loadCustomPorts
    /\ settingsPorts = <<>>
    /\ savedPorts = <<>>

Init ==
    /\ InitApp
    /\ scored = NotScored

\* filteredPorts / filteredPortsRef.current of the latest render.
filteredPorts == Ranked(state, searchQuery)

\* SettingsPanel's initial `ports`: useState(customPorts.length > 0 ?
\* customPorts : [...COMMON_PORTS]), evaluated when the panel mounts.
InitialPorts == IF Len(customPorts) > 0 THEN customPorts ELSE COMMON_PORTS

\* allPorts, the commonPorts prop of PortGrid.
allPorts == IF Len(customPorts) > 0 THEN customPorts ELSE COMMON_PORTS

\* The details panel, the context menu and the settings panel are
\* full-window overlays (fixed inset-0): while one is open the mouse reaches
\* nothing below it.
NoOverlay == detailsPort = NULL /\ contextMenu = NULL /\ ~showSettings

\* The list is rendered only when not loading, no error, and the view is
\* not empty.
ListShown == ~loading /\ error = "" /\ filteredPorts # <<>>

\* The rows of the list can be clicked.
ListReachable == ListShown /\ NoOverlay

\* The handlers whose runs the model tells apart in event; a step of any
\* other handler is recorded as "other".
ObservedOps == {"requestKill", "requestBulkKill", "ConfirmTimeout", "InputArrowDown"}

\* The observation of a step: which handler ran (op), the PortInfo it was
\* given (port, or NULL), for requestKill the pending token it found (was),
\* for requestBulkKill the number of entries that were killable when the
\* pending bulk kill was requested (asked), and the kill_process calls it
\* issued.  No handler, timer callback or continuation unmounts the
\* component.
Record(op, port, calls) ==
    /\ mounted' = mounted
    /\ scored' = scored
    /\ event' = [op |-> IF op \in ObservedOps THEN op ELSE "other",
                 port |-> port,
                 was |-> IF op = "requestKill" THEN pendingKill ELSE NoKey,
                 asked |-> IF op = "requestBulkKill" THEN askedBulk ELSE 0]
    /\ invoked' = calls

\* A step of a handler that leaves the settings panel, the custom list and
\* its stored item alone.
Observe(op, port, calls) ==
    /\ Record(op, port, calls)
    /\ UNCHANGED settingsVars

\* A step of handler op that issues no kill_process call.
NoCall(op) == Observe(op, NULL, <<>>)

\* ------------------------------------------------------------------------
\* Toasts
\* ------------------------------------------------------------------------

Message(type, text, killed, total) ==
    [type |-> type, text |-> text, killed |-> killed, total |-> total]

\* showToast without its clearTimeout: a timer already pending stays the next
\* one to fire.
showToastKeepsTimer(type, text, killed, total) ==
    /\ toast' = Message(type, text, killed, total)
    /\ toastTimer' = IF toastTimer # 0 THEN toastTimer
                     ELSE IF type = "error" THEN ToastErrorMs ELSE ToastSuccessMs

\* showToast: replaces the toast and re-arms the single toast timer.
showToast(type, text, killed, total) ==
    /\ toast' = Message(type, text, killed, total)
    /\ toastTimer' = IF type = "error" THEN ToastErrorMs ELSE ToastSuccessMs

\* ------------------------------------------------------------------------
\* Confirmation gate
\* ------------------------------------------------------------------------

\* The auto-cancel effect with pendingBulkKill left out of its condition.
ConfirmEffectSingleOnly(pk, pb) ==
    IF <<pk, pb>> = <<pendingKill, pendingBulkKill>>
    THEN confirmTimer
    ELSE IF pk # NoKey THEN ConfirmMs ELSE 0

\* The auto-cancel effect, which depends on [pendingKill, pendingBulkKill]:
\* when either changes, the old timer is cleared and, if a confirmation is
\* pending, a new one is armed.
ConfirmEffect(pk, pb) ==
    IF <<pk, pb>> = <<pendingKill, pendingBulkKill>>
    THEN confirmTimer
    ELSE IF pk # NoKey \/ pb THEN ConfirmMs ELSE 0

\* executeKill up to its await: kill_process is invoked.
executeKill(portInfo) ==
    /\ Len(kills) < MaxKills
    /\ killingPort' = portInfo.port
    /\ kills' = Append(kills, portInfo)
    /\ Observe("requestKill", portInfo, <<portInfo>>)

\* requestKill without its is_protected test.
requestKillUnguarded(portInfo) ==
    IF pendingKill = Key(portInfo)
    THEN /\ executeKill(portInfo)
         /\ pendingKill' = NoKey
         /\ confirmTimer' = ConfirmEffect(NoKey, pendingBulkKill)
         /\ UNCHANGED <<pendingBulkKill, askedBulk, toastVars>>
    ELSE /\ pendingKill' = Key(portInfo)
         /\ confirmTimer' = ConfirmEffect(Key(portInfo), pendingBulkKill)
         /\ Observe("requestKill", portInfo, <<>>)
         /\ UNCHANGED <<pendingBulkKill, askedBulk, killingPort, kills, toastVars>>

\* requestKill that forgets setPendingKill(null) after the confirmed kill.
requestKillKeepsPending(portInfo) ==
    IF portInfo.is_protected
    THEN /\ showToast("error", "Cannot kill protected process", 0, 0)
         /\ Observe("requestKill", portInfo, <<>>)
         /\ UNCHANGED <<gateVars, killingPort, kills>>
    ELSE IF pendingKill = Key(portInfo)
    THEN /\ executeKill(portInfo)
         /\ UNCHANGED <<gateVars, toastVars>>
    ELSE /\ pendingKill' = Key(portInfo)
         /\ confirmTimer' = ConfirmEffect(Key(portInfo), pendingBulkKill)
         /\ Observe("requestKill", portInfo, <<>>)
         /\ UNCHANGED <<pendingBulkKill, askedBulk, killingPort, kills, toastVars>>

\* requestKill that takes any click as the confirmation once some token is
\* pending (pendingKill !== null instead of pendingKill === key).
requestKillAnyPending(portInfo) ==
    IF portInfo.is_protected
    THEN /\ showToast("error", "Cannot kill protected process", 0, 0)
         /\ Observe("requestKill", portInfo, <<>>)
         /\ UNCHANGED <<gateVars, killingPort, kills>>
    ELSE IF pendingKill # NoKey
    THEN /\ executeKill(portInfo)
         /\ pendingKill' = NoKey
         /\ confirmTimer' = ConfirmEffect(NoKey, pendingBulkKill)
         /\ UNCHANGED <<pendingBulkKill, askedBulk, toastVars>>
    ELSE /\ pendingKill' = Key(portInfo)
         /\ confirmTimer' = ConfirmEffect(Key(portInfo), pendingBulkKill)
         /\ Observe("requestKill", portInfo, <<>>)
         /\ UNCHANGED <<pendingBulkKill, askedBulk, killingPort, kills, toastVars>>

\* requestKill(portInfo); the caller states searchQuery and the rest.
requestKill(portInfo) ==
    IF portInfo.is_protected
    THEN /\ showToast("error", "Cannot kill protected process", 0, 0)
         /\ Observe("requestKill", portInfo, <<>>)
         /\ UNCHANGED <<gateVars, killingPort, kills>>
    ELSE IF pendingKill = Key(portInfo)
    THEN /\ executeKill(portInfo)
         /\ pendingKill' = NoKey
         /\ confirmTimer' = ConfirmEffect(NoKey, pendingBulkKill)
         /\ UNCHANGED <<pendingBulkKill, askedBulk, toastVars>>
    ELSE /\ pendingKill' = Key(portInfo)
         /\ confirmTimer' = ConfirmEffect(Key(portInfo), pendingBulkKill)
         /\ Observe("requestKill", portInfo, <<>>)
         /\ UNCHANGED <<pendingBulkKill, askedBulk, killingPort, kills, toastVars>>

\* What a single-kill request path leaves alone (searchQuery is the caller's).
RequestFrame ==
    UNCHANGED <<pollVars, fetches, selectedIndex, selectedPorts, bulkKills,
                followUps, panelVars>>

\* The kill button of row i of the list (PortList): rendered for entries that
\* are not protected, disabled while that port is being killed.
ListKill(i) ==
    /\ ListReachable
    /\ i \in 1..Len(filteredPorts)
    /\ ~filteredPorts[i].is_protected
    /\ killingPort # filteredPorts[i].port
    /\ requestKill(filteredPorts[i])
    /\ UNCHANGED searchQuery
    /\ RequestFrame

\* The ports that can have a card in the common-ports grid: with a custom
\* list, any port.
GridPorts == PortSet

\* A card of the common-ports grid (PortGrid): disabled when the port is
\* free, being killed, or protected.
GridKill(cp) ==
    /\ NoOverlay
    /\ cp \in GridPorts
    /\ PortMapGet(state, cp) # NULL
    /\ killingPort # cp
    /\ ~PortMapGet(state, cp).is_protected
    /\ requestKill(PortMapGet(state, cp))
    /\ UNCHANGED searchQuery
    /\ RequestFrame

\* Enter (focus outside the search input) or Delete in the global keydown
\* handler: ports[selectedIndex] of the ranked view, if there is one.
KeyKill ==
    /\ selectedIndex >= 0
    /\ selectedIndex + 1 <= Len(filteredPorts)
    /\ requestKill(filteredPorts[selectedIndex + 1])
    /\ UNCHANGED searchQuery
    /\ RequestFrame

\* ------------------------------------------------------------------------
\* Command interpreter (executeCommand, handleInputKeyDown)
\* ------------------------------------------------------------------------

StrAdmin == <<"a", "d", "m", "i", "n">>
StrSudo == <<"s", "u", "d", "o">>
StrRefresh == <<"r", "e", "f", "r", "e", "s", "h">>
StrR == <<"r">>
StrClear == <<"c", "l", "e", "a", "r">>
StrC == <<"c">>
StrSettings == <<"s", "e", "t", "t", "i", "n", "g", "s">>
StrConfig == <<"c", "o", "n", "f", "i", "g">>
StrHelp == <<"h", "e", "l", "p">>
StrQuestion == <<"?">>
StrKillSp == <<"k", "i", "l", "l", " ">>
StrExport == <<"e", "x", "p", "o", "r", "t">>

\* The branch of executeCommand that a command line takes; "none" is the
\* final `return false`.
CommandKind(cmd) ==
    LET trimmed == ToLower(Trim(cmd))
    IN  IF trimmed \in {StrAdmin, StrSudo} THEN "admin"
        ELSE IF trimmed \in {StrRefresh, StrR} THEN "refresh"
        ELSE IF trimmed \in {StrClear, StrC} THEN "clear"
        ELSE IF trimmed \in {StrSettings, StrConfig} THEN "settings"
        ELSE IF trimmed \in {StrHelp, StrQuestion} THEN "help"
        ELSE IF /\ StartsWith(trimmed, StrKillSp)
                /\ ~ParseInt(Slice(trimmed, 5)).isNaN
                /\ state # NULL
             THEN "kill"
        ELSE IF StartsWith(trimmed, StrExport) THEN "export"
        ELSE "none"

\* The port number of a `kill <port>` command line.
KillArg(cmd) == ParseInt(Slice(ToLower(Trim(cmd)), 5)).value

\* fetchPorts() up to its await: one more get_listening_ports in flight.
fetchPorts ==
    /\ Len(fetches) < MaxInFlight
    /\ fetches' = Append(fetches, FALSE)

\* The lookup that stays silent when no entry is on portNum.
KillByPortSilent(portNum) ==
    IF FindByPort(state.ports, portNum) # NULL
    THEN requestKill(FindByPort(state.ports, portNum))
    ELSE /\ NoCall("portNotInUse")
         /\ UNCHANGED <<gateVars, killingPort, kills, toastVars>>

\* requestKill of the first entry on portNum, or the "not in use" toast.
KillByPort(portNum) ==
    IF FindByPort(state.ports, portNum) # NULL
    THEN requestKill(FindByPort(state.ports, portNum))
    ELSE /\ showToast("error", "Port is not in use", 0, 0)
         /\ NoCall("portNotInUse")
         /\ UNCHANGED <<gateVars, killingPort, kills>>

\* Enter in the search input (handleInputKeyDown): a command when
\* executeCommand matches, otherwise a bare port number.
InputEnter ==
    LET kind == CommandKind(searchQuery)
        bare == ParseInt(searchQuery)
        Quiet == /\ NoCall("executeCommand")
                 /\ UNCHANGED <<gateVars, killingPort, kills>>
        Opened == /\ Record("executeCommand", NULL, <<>>)
                  /\ showSettings' = TRUE
                  /\ settingsPorts' = IF showSettings THEN settingsPorts
                                      ELSE InitialPorts
                  /\ UNCHANGED <<customPorts, storedPorts, savedPorts>>
                  /\ UNCHANGED <<gateVars, killingPort, kills>>
    IN  /\ UNCHANGED <<pollVars, selectedIndex, bulkKills, followUps, panelVars>>
        /\ CASE kind = "admin" ->
                  /\ showToast("success", "Restarting as Administrator...", 0, 0)
                  /\ Quiet
                  /\ searchQuery' = <<>>
                  /\ UNCHANGED <<fetches, selectedPorts>>
             [] kind = "refresh" ->
                  /\ fetchPorts
                  /\ showToast("success", "Refreshed port list", 0, 0)
                  /\ Quiet
                  /\ searchQuery' = <<>>
                  /\ UNCHANGED selectedPorts
             [] kind = "clear" ->
                  /\ searchQuery' = <<>>
                  /\ selectedPorts' = {}
                  /\ Quiet
                  /\ UNCHANGED <<fetches, toastVars>>
             [] kind = "settings" ->
                  /\ searchQuery' = <<>>
                  /\ Opened
                  /\ UNCHANGED <<fetches, selectedPorts, toastVars>>
             [] kind = "help" ->
                  /\ showToast("success", "Commands: ...", 0, 0)
                  /\ Quiet
                  /\ searchQuery' = <<>>
                  /\ UNCHANGED <<fetches, selectedPorts>>
             [] kind = "kill" ->
                  /\ KillByPort(KillArg(searchQuery))
                  /\ searchQuery' = <<>>
                  /\ UNCHANGED <<fetches, selectedPorts>>
             [] kind = "export" ->
                  /\ IF state # NULL
                     THEN showToast("success", "Copied ports", 0, Len(state.ports))
                     ELSE UNCHANGED toastVars
                  /\ Quiet
                  /\ searchQuery' = <<>>
                  /\ UNCHANGED <<fetches, selectedPorts>>
             [] kind = "none" ->
                  /\ IF ~bare.isNaN /\ state # NULL
                     THEN KillByPort(bare.value)
                     ELSE Quiet /\ UNCHANGED toastVars
                  /\ UNCHANGED <<searchQuery, fetches, selectedPorts>>

\* onInput of the search field: the user edits the query to q.
SetQuery(q) ==
    /\ q # searchQuery
    /\ searchQuery' = q
    /\ NoCall("SetQuery")
    /\ UNCHANGED <<pollVars, fetches, selectedIndex, selectedPorts, gateVars,
                   killVars, followUps, toastVars, panelVars>>

\* ------------------------------------------------------------------------
\* Bulk kill (requestBulkKill, executeBulkKill)
\* ------------------------------------------------------------------------

\* The filter without its !p.is_protected test.
KillableProtectedToo(p) == Key(p) \in selectedPorts

\* filteredPortsRef.current.filter(p => selectedPorts.has(key) && !p.is_protected)
Killable(p) == Key(p) \in selectedPorts /\ ~p.is_protected

\* The filter run on the snapshot (state.ports) instead of the ranked view.
portsToKillOfSnapshot ==
    SelectSeq(IF state = NULL THEN <<>> ELSE state.ports, Killable)

\* portsToKill of requestBulkKill and of executeBulkKill: both run in the
\* same task, on the same filteredPortsRef.current and selectedPorts.
portsToKill == SelectSeq(filteredPorts, Killable)

\* executeBulkKill up to its await: one kill_process per killable entry.
executeBulkKill ==
    /\ Len(bulkKills) < MaxKills
    /\ Observe("requestBulkKill", NULL, portsToKill)
    /\ bulkKills' = Append(bulkKills, portsToKill)

\* The "Kill N" header button, rendered while more than one key is selected.
requestBulkKill ==
    /\ NoOverlay
    /\ Cardinality(selectedPorts) > 1
    /\ IF portsToKill = <<>>
       THEN /\ showToast("error", "No killable ports selected", 0, 0)
            /\ NoCall("requestBulkKill")
            /\ UNCHANGED <<gateVars, bulkKills>>
       ELSE IF pendingBulkKill
       THEN /\ executeBulkKill
            /\ pendingBulkKill' = FALSE
            /\ askedBulk' = 0
            /\ confirmTimer' = ConfirmEffect(pendingKill, FALSE)
            /\ UNCHANGED <<pendingKill, toastVars>>
       ELSE /\ pendingBulkKill' = TRUE
            /\ askedBulk' = Len(portsToKill)
            /\ confirmTimer' = ConfirmEffect(pendingKill, TRUE)
            /\ NoCall("requestBulkKill")
            /\ UNCHANGED <<pendingKill, bulkKills, toastVars>>
    /\ UNCHANGED <<pollVars, fetches, viewVars, killingPort, kills, followUps,
                   panelVars>>

\* Outcomes of one kill_process call inside a batch.
BatchOutcomes == {"success", "failure", "throw"}

RECURSIVE CountSuccess(_)
CountSuccess(results) ==
    IF results = <<>> THEN 0
    ELSE (IF Head(results) = "success" THEN 1 ELSE 0) + CountSuccess(Tail(results))

RemoveAt(s, i) == SubSeq(s, 1, i - 1) \o SubSeq(s, i + 1, Len(s))

\* executeBulkKill after Promise.allSettled: the batch at position i settles
\* with the given result per call.
BulkSettled(i, results) ==
    /\ i \in 1..Len(bulkKills)
    /\ Len(results) = Len(bulkKills[i])
    /\ followUps < MaxFollowUps
    /\ showToast(IF CountSuccess(results) > 0 THEN "success" ELSE "error",
                 "Killed k/n processes", CountSuccess(results), Len(bulkKills[i]))
    /\ selectedPorts' = {}
    /\ followUps' = followUps + 1
    /\ bulkKills' = RemoveAt(bulkKills, i)
    /\ NoCall("BulkSettled")
    /\ UNCHANGED <<pollVars, fetches, searchQuery, selectedIndex, gateVars,
                   killingPort, kills, panelVars>>

\* ------------------------------------------------------------------------
\* Completion of a single kill (executeKill after its await)
\* ------------------------------------------------------------------------

\* formatErrorMessage(err, isAdmin)
formatErrorMessage(msg) ==
    IF msg \in {"Access is denied", "os error 5"} THEN "Access denied"
    ELSE IF msg \in {"process has exited", "not found"}
         THEN "Process has already exited. Refreshing port list..."
         ELSE msg

\* The catch block's test for an automatic refresh:
\* msg.includes('not found') || msg.includes('exited')
CatchRefreshes(msg) == msg \in {"not found", "process has exited", "exited"}

\* Whether this outcome runs setTimeout(fetchPorts, 500).
SchedulesFollowUp(how, msg) ==
    \/ how = "success"
    \/ how = "throw" /\ CatchRefreshes(msg)

\* The call at position i of kills completes: how is "success" (result.success),
\* "failure" (result.success = false) or "throw"; msg is the message.
KillSettled(i, how, msg) ==
    /\ i \in 1..Len(kills)
    /\ IF SchedulesFollowUp(how, msg)
       THEN followUps < MaxFollowUps /\ followUps' = followUps + 1
       ELSE UNCHANGED followUps
    /\ IF how = "success"
       THEN showToast("success", msg, 0, 0)
       ELSE showToast("error", formatErrorMessage(msg), 0, 0)
    /\ killingPort' = NoPort
    /\ searchQuery' = <<>>
    /\ kills' = RemoveAt(kills, i)
    /\ NoCall("KillSettled")
    /\ UNCHANGED <<pollVars, fetches, selectedIndex, selectedPorts, gateVars,
                   bulkKills, panelVars>>

\* ------------------------------------------------------------------------
\* Timers of the gate and of the toast; cancel
\* ------------------------------------------------------------------------

\* The auto-cancel timer fires.
ConfirmTimeout ==
    /\ confirmTimer # 0
    /\ pendingKill' = NoKey
    /\ pendingBulkKill' = FALSE
    /\ askedBulk' = 0
    /\ confirmTimer' = 0
    /\ NoCall("ConfirmTimeout")
    /\ UNCHANGED <<pollVars, fetches, viewVars, killVars, followUps, toastVars,
                   panelVars>>

\* The Escape key.  The context menu's own keydown listener (on document)
\* closes the menu and stops propagation, so the global handler (on window)
\* runs only when no menu is open: it cancels a pending confirmation, else
\* closes the details panel.
Escape ==
    /\ Record("Escape", NULL, <<>>)
    /\ UNCHANGED <<pollVars, fetches, viewVars, killVars, followUps, toastVars,
                   customPorts, storedPorts, savedPorts>>
    /\ IF contextMenu # NULL
       THEN /\ contextMenu' = NULL
            /\ UNCHANGED <<detailsPort, gateVars, showSettings, settingsPorts>>
       ELSE IF pendingKill # NoKey \/ pendingBulkKill
       THEN /\ pendingKill' = NoKey
            /\ pendingBulkKill' = FALSE
            /\ askedBulk' = 0
            /\ confirmTimer' = ConfirmEffect(NoKey, FALSE)
            /\ UNCHANGED <<panelVars, showSettings, settingsPorts>>
       ELSE IF detailsPort # NULL
       THEN /\ detailsPort' = NULL
            /\ UNCHANGED <<contextMenu, gateVars, showSettings, settingsPorts>>
       ELSE /\ showSettings' = FALSE
            /\ settingsPorts' = <<>>
            /\ UNCHANGED <<panelVars, gateVars>>

\* A click on the toast or on its close button: onDismiss = setToast(null).
\* The timer is left to run.
DismissToast ==
    /\ toast # NULL
    /\ toast' = NULL
    /\ NoCall("DismissToast")
    /\ UNCHANGED <<pollVars, fetches, viewVars, gateVars, killVars, followUps,
                   toastTimer, panelVars>>

\* The toast timer fires.
ToastTimeout ==
    /\ toastTimer # 0
    /\ toast' = NULL
    /\ toastTimer' = 0
    /\ NoCall("ToastTimeout")
    /\ UNCHANGED <<pollVars, fetches, viewVars, gateVars, killVars, followUps,
                   panelVars>>

\* ------------------------------------------------------------------------
\* Poller and change tracker (fetchPorts, the polling effect)
\* ------------------------------------------------------------------------

\* Most expiry timers pending for one key that the model follows.
MaxChangeTimers == 1

KeysOf(ports) == {Key(ports[i]) : i \in 1..Len(ports)}

TimerCount(k) == IF k \in DOMAIN changeTimers THEN changeTimers[k] ELSE 0

\* Every key of the snapshot taken as new, whatever prevPorts holds.
NewKeysAll(data) == KeysOf(data)

\* The keys stamped 'new' by a snapshot: present now, absent from prevPorts.
NewKeys(data) == KeysOf(data) \ prevPorts

\* The keys stamped 'removed': in prevPorts, absent now.
RemovedKeys(data) == prevPorts \ KeysOf(data)

\* The merge run without the hadPorts test.
MergedChangesAlways(data) ==
    [k \in DOMAIN portChanges \cup NewKeys(data) \cup RemovedKeys(data) |->
        IF k \in NewKeys(data) THEN "new"
        ELSE IF k \in RemovedKeys(data) THEN "removed"
        ELSE portChanges[k]]

\* new Map([...prev, ...newChanges]) when the tracker ran and found changes.
MergedChanges(data) ==
    IF prevPorts = {} THEN portChanges
    ELSE [k \in DOMAIN portChanges \cup NewKeys(data) \cup RemovedKeys(data) |->
            IF k \in NewKeys(data) THEN "new"
            ELSE IF k \in RemovedKeys(data) THEN "removed"
            ELSE portChanges[k]]

\* changeTimersRef after one setTimeout(..., 3000) per new key.
ScheduledTimers(data) ==
    IF prevPorts = {} THEN changeTimers
    ELSE [k \in DOMAIN changeTimers \cup NewKeys(data) |->
            IF k \in NewKeys(data) THEN TimerCount(k) + 1 ELSE changeTimers[k]]

\* The fetches still in flight after the one at position i has been applied:
\* those started before it are from now on older than the applied snapshot.
AfterApplied(i) ==
    [j \in 1..(Len(fetches) - 1) |-> IF j < i THEN TRUE ELSE fetches[j + 1]]

\* The setInterval(fetchPorts, 2000) tick.
PollTick ==
    /\ fetchPorts
    /\ NoCall("PollTick")
    /\ UNCHANGED <<pollVars, viewVars, gateVars, killVars, followUps, toastVars,
                   panelVars>>

\* A setTimeout(fetchPorts, 500) follow-up fires.
FollowUpFire ==
    /\ followUps > 0
    /\ followUps' = followUps - 1
    /\ fetchPorts
    /\ NoCall("FollowUpFire")
    /\ UNCHANGED <<pollVars, viewVars, gateVars, killVars, toastVars, panelVars>>

\* The Retry button of the error view.
Retry ==
    /\ NoOverlay
    /\ ~loading
    /\ error # ""
    /\ fetchPorts
    /\ NoCall("Retry")
    /\ UNCHANGED <<pollVars, viewVars, gateVars, killVars, followUps, toastVars,
                   panelVars>>

\* The try block without its setError(null).
FetchResolvedKeepsError(i, data) ==
    /\ i \in 1..Len(fetches)
    /\ \A k \in NewKeys(data) : prevPorts # {} => TimerCount(k) < MaxChangeTimers
    /\ portChanges' = MergedChanges(data)
    /\ changeTimers' = ScheduledTimers(data)
    /\ prevPorts' = KeysOf(data)
    /\ state' = [ports |-> data]
    /\ loading' = FALSE
    /\ fetches' = AfterApplied(i)
    /\ NoCall("FetchResolved")
    /\ UNCHANGED <<error, viewVars, gateVars, killVars, followUps, toastVars,
                   panelVars>>

\* fetchPorts after its await, get_listening_ports resolved with data.ports.
FetchResolved(i, data) ==
    /\ i \in 1..Len(fetches)
    /\ \A k \in NewKeys(data) : prevPorts # {} => TimerCount(k) < MaxChangeTimers
    /\ portChanges' = MergedChanges(data)
    /\ changeTimers' = ScheduledTimers(data)
    /\ prevPorts' = KeysOf(data)
    /\ state' = [ports |-> data]
    /\ error' = ""
    /\ loading' = FALSE
    /\ fetches' = AfterApplied(i)
    /\ NoCall("FetchResolved")
    /\ UNCHANGED <<viewVars, gateVars, killVars, followUps, toastVars, panelVars>>

\* The catch branch made to drop the loaded entries as well.
FetchRejectedClears(i) ==
    /\ i \in 1..Len(fetches)
    /\ error' = "get_listening_ports failed"
    /\ loading' = FALSE
    /\ state' = [ports |-> <<>>]
    /\ prevPorts' = {}
    /\ fetches' = RemoveAt(fetches, i)
    /\ NoCall("FetchRejected")
    /\ UNCHANGED <<portChanges, changeTimers, viewVars, gateVars, killVars,
                   followUps, toastVars, panelVars>>

\* fetchPorts after its await, get_listening_ports rejected.
FetchRejected(i) ==
    /\ i \in 1..Len(fetches)
    /\ error' = "get_listening_ports failed"
    /\ loading' = FALSE
    /\ fetches' = RemoveAt(fetches, i)
    /\ NoCall("FetchRejected")
    /\ UNCHANGED <<state, prevPorts, portChanges, changeTimers, viewVars,
                   gateVars, killVars, followUps, toastVars, panelVars>>

\* An expiry timer of key k fires: the key is deleted from portChanges.
ChangeTimerFire(k) ==
    /\ TimerCount(k) > 0
    /\ changeTimers' =
         [j \in {d \in DOMAIN changeTimers : d # k \/ changeTimers[d] > 1} |->
            IF j = k THEN changeTimers[j] - 1 ELSE changeTimers[j]]
    /\ portChanges' = [j \in DOMAIN portChanges \ {k} |-> portChanges[j]]
    /\ NoCall("ChangeTimerFire")
    /\ UNCHANGED <<state, prevPorts, fetches, loading, error, viewVars, gateVars,
                   killVars, followUps, toastVars, panelVars>>

\* ------------------------------------------------------------------------
\* Selection and navigation (handlePortClick, global keydown handler)
\* ------------------------------------------------------------------------

Min2(a, b) == IF a <= b THEN a ELSE b

\* ports.slice(start, end) taken for ports.slice(start, end + 1).
Slice0Exclusive(ports, start, end) ==
    SubSeq(ports, Max2(start, 0) + 1, Min2(end, Len(ports)))

\* ports.slice(start, end + 1) for 0-based start and end.
Slice0(ports, start, end) ==
    SubSeq(ports, Max2(start, 0) + 1, Min2(end + 1, Len(ports)))

\* A findIndex that counts the rows from 1.
FindIndexOneBased(ports, key) ==
    IF \E j \in 1..Len(ports) : Key(ports[j]) = key
    THEN CHOOSE j \in 1..Len(ports) :
             /\ Key(ports[j]) = key
             /\ \A h \in 1..(j - 1) : Key(ports[h]) # key
    ELSE 0 - 1

\* ports.findIndex(p => `${p.port}-${p.pid}` === key): 0-based, -1 if none.
FindIndex(ports, key) ==
    IF \E j \in 1..Len(ports) : Key(ports[j]) = key
    THEN (CHOOSE j \in 1..Len(ports) :
              /\ Key(ports[j]) = key
              /\ \A h \in 1..(j - 1) : Key(ports[h]) # key) - 1
    ELSE 0 - 1

\* A toggle that only ever adds the key.
ToggledAddOnly(prev, key) == prev \cup {key}

\* The updater of the Ctrl/Meta branch: next.has(key) ? delete : add.
Toggled(prev, key) ==
    IF key \in prev THEN prev \ {key} ELSE prev \cup {key}

\* A click on row i of the list; mod is "plain", "ctrl" or "shift".
PortClick(i, mod) ==
    /\ ListReachable
    /\ i \in 1..Len(filteredPorts)
    /\ LET key == Key(filteredPorts[i])
           currentIdx == FindIndex(filteredPorts, key)
       IN  IF mod = "ctrl"
           THEN /\ selectedPorts' = Toggled(selectedPorts, key)
                /\ UNCHANGED selectedIndex
           ELSE IF mod = "shift" /\ selectedIndex >= 0
           THEN /\ selectedPorts' =
                     KeysOf(Slice0(filteredPorts, Min2(selectedIndex, currentIdx),
                                   Max2(selectedIndex, currentIdx)))
                /\ UNCHANGED selectedIndex
           ELSE /\ selectedPorts' = {key}
                /\ selectedIndex' = currentIdx
    /\ NoCall("PortClick")
    /\ UNCHANGED <<pollVars, fetches, searchQuery, gateVars, killVars, followUps,
                   toastVars, panelVars>>

\* ArrowDown / ArrowUp in the global handler.
ArrowDown ==
    /\ selectedIndex' = Min2(selectedIndex + 1, Len(filteredPorts) - 1)
    /\ NoCall("ArrowDown")
    /\ UNCHANGED <<pollVars, fetches, searchQuery, selectedPorts, gateVars,
                   killVars, followUps, toastVars, panelVars>>

ArrowUp ==
    /\ selectedIndex' = Max2(selectedIndex - 1, -1)
    /\ NoCall("ArrowUp")
    /\ UNCHANGED <<pollVars, fetches, searchQuery, selectedPorts, gateVars,
                   killVars, followUps, toastVars, panelVars>>

\* ArrowDown pressed in the search input.  The keydown event reaches the
\* input's handler, which runs setSelectedIndex(0), and then bubbles to the
\* window, where the global handler runs its updater on the value just set:
\* setSelectedIndex(prev => Math.min(prev + 1, ports.length - 1)).
InputArrowDown ==
    /\ NoOverlay
    /\ selectedIndex' = Min2(0 + 1, Len(filteredPorts) - 1)
    /\ NoCall("InputArrowDown")
    /\ UNCHANGED <<pollVars, fetches, searchQuery, selectedPorts, gateVars,
                   killVars, followUps, toastVars, panelVars>>

\* Ctrl+A with the focus outside the search input.
SelectAll ==
    /\ selectedPorts' = KeysOf(filteredPorts)
    /\ NoCall("SelectAll")
    /\ UNCHANGED <<pollVars, fetches, searchQuery, selectedIndex, gateVars,
                   killVars, followUps, toastVars, panelVars>>

\* ------------------------------------------------------------------------
\* Details panel and context menu
\* ------------------------------------------------------------------------

\* The details button of row i: setDetailsPort(portInfo).
ShowDetails(i) ==
    /\ ListReachable
    /\ i \in 1..Len(filteredPorts)
    /\ detailsPort' = filteredPorts[i]
    /\ NoCall("ShowDetails")
    /\ UNCHANGED <<pollVars, fetches, viewVars, gateVars, killVars, followUps,
                   toastVars, contextMenu>>

\* A right click on row i: setContextMenu({x, y, port}).
OpenContextMenu(i) ==
    /\ ListReachable
    /\ i \in 1..Len(filteredPorts)
    /\ contextMenu' = filteredPorts[i]
    /\ NoCall("OpenContextMenu")
    /\ UNCHANGED <<pollVars, fetches, viewVars, gateVars, killVars, followUps,
                   toastVars, detailsPort>>

\* "Kill Process" of the details panel, offered when the port the panel was
\* opened with is not protected: onKill(port); onClose().
DetailsKill ==
    /\ detailsPort # NULL
    /\ ~detailsPort.is_protected
    /\ requestKill(detailsPort)
    /\ detailsPort' = NULL
    /\ UNCHANGED <<pollVars, fetches, viewVars, bulkKills, followUps, contextMenu>>

\* "Kill Process" of the context menu: onKill(port); onClose().
ContextMenuKill ==
    /\ contextMenu # NULL
    /\ ~contextMenu.is_protected
    /\ requestKill(contextMenu)
    /\ contextMenu' = NULL
    /\ UNCHANGED <<pollVars, fetches, viewVars, bulkKills, followUps, detailsPort>>

\* "View Details" of the context menu: onShowDetails(port); onClose().
ContextMenuDetails ==
    /\ contextMenu # NULL
    /\ detailsPort' = contextMenu
    /\ contextMenu' = NULL
    /\ NoCall("ContextMenuDetails")
    /\ UNCHANGED <<pollVars, fetches, viewVars, gateVars, killVars, followUps,
                   toastVars>>

\* The close button of the details panel, or a mouse press outside the menu.
ClosePanel ==
    /\ ~NoOverlay
    /\ IF contextMenu # NULL
       THEN contextMenu' = NULL /\ UNCHANGED detailsPort
       ELSE detailsPort' = NULL /\ UNCHANGED contextMenu
    /\ NoCall("ClosePanel")
    /\ UNCHANGED <<pollVars, fetches, viewVars, gateVars, killVars, followUps,
                   toastVars>>

\* ------------------------------------------------------------------------
\* Inputs
\* ------------------------------------------------------------------------

\* The entries of the inventory: two bindings, each protected or not.
Entries == {e \in PortInfo : e.port = e.pid}

\* Every port list over Entries.
Inventories == InventoriesOver(Entries)

\* What the operator types into the search field: nothing, or a bare port
\* number that matches the entry on port 2 and no other.
Queries == {<<>>, NumStr(2)}

KillHows == {"success", "failure", "throw"}

BatchResults == UNION {[1..n -> BatchOutcomes] : n \in 1..MaxPorts}

Keys == PortSet \X PidSet

\* ------------------------------------------------------------------------
\* Spec: the confirmation gate under an operator and a changing inventory
\* ------------------------------------------------------------------------

\* Nothing is waiting that no handler of the gate reads: the toast timer and
\* the change-expiry timers only write toast and portChanges, and a kill in
\* flight only holds killingPort.
Settled ==
    /\ toastTimer = 0
    /\ changeTimers = <<>>
    /\ kills = <<>>
    /\ bulkKills = <<>>

\* The next-state relation of Spec.  Completions and expiries are delivered
\* before the operator's next event, and one inventory fetch runs at a time:
\* the gate never reads what they write, and every sequence of snapshots
\* between two operator events remains possible.  The operator reaches the
\* rows through the kill buttons, the grid, the command line and the key
\* handler on the row selectedIndex names.
Next ==
    \/ ToastTimeout
    \/ \E k \in Keys : ChangeTimerFire(k)
    \/ \E i \in 1..MaxKills, how \in KillHows : KillSettled(i, how, "other")
    \/ \E i \in 1..MaxKills, results \in BatchResults : BulkSettled(i, results)
    \/ Settled /\ fetches = <<>> /\ PollTick
    \/ Settled /\ fetches = <<>> /\ FollowUpFire
    \/ Settled /\ \E i \in 1..MaxInFlight, data \in Inventories : FetchResolved(i, data)
    \/ Settled /\ \E i \in 1..MaxPorts : ListKill(i)
    \/ Settled /\ \E cp \in GridPorts : GridKill(cp)
    \/ Settled /\ KeyKill
    \/ Settled /\ ArrowDown
    \/ Settled /\ InputEnter
    \/ Settled /\ \E q \in Queries : SetQuery(q)
    \/ Settled /\ \E i \in 1..MaxPorts : PortClick(i, "ctrl")
    \/ Settled /\ requestBulkKill
    \/ Settled /\ Escape
    \/ Settled /\ ConfirmTimeout

Spec == Init /\ [][Next]_vars

\* ------------------------------------------------------------------------
\* SpecPanel: the details panel and the context menu over a changing
\* inventory
\* ------------------------------------------------------------------------

\* The operator opens and closes the panel and the menu and requests kills
\* from them and from the rows, while the poller replaces the inventory.
PanelNext ==
    \/ ToastTimeout
    \/ \E k \in Keys : ChangeTimerFire(k)
    \/ \E i \in 1..MaxKills, how \in KillHows : KillSettled(i, how, "other")
    \/ Settled /\ fetches = <<>> /\ PollTick
    \/ Settled /\ fetches = <<>> /\ FollowUpFire
    \/ Settled /\ \E i \in 1..MaxInFlight, data \in Inventories : FetchResolved(i, data)
    \/ Settled /\ \E i \in 1..MaxPorts : ListKill(i)
    \/ Settled /\ \E i \in 1..MaxPorts : ShowDetails(i)
    \/ Settled /\ \E i \in 1..MaxPorts : OpenContextMenu(i)
    \/ Settled /\ DetailsKill
    \/ Settled /\ ContextMenuKill
    \/ Settled /\ ContextMenuDetails
    \/ Settled /\ ClosePanel
    \/ Settled /\ Escape
    \/ Settled /\ ConfirmTimeout

SpecPanel == Init /\ [][PanelNext]_vars

\* ------------------------------------------------------------------------
\* SpecPoll: the poller with every source of fetches and no pacing
\* ------------------------------------------------------------------------

\* The command lines typed in SpecPoll: nothing, or the refresh command.
PollQueries == {<<>>, StrR}

\* The interval ticks, the refresh command and the Retry button start
\* fetches whenever they run; the fetches in flight complete in any order.
PollNext ==
    \/ PollTick
    \/ Retry
    \/ InputEnter
    \/ \E q \in PollQueries : SetQuery(q)
    \/ ToastTimeout
    \/ \E i \in 1..MaxInFlight, data \in Inventories : FetchResolved(i, data)
    \/ \E i \in 1..MaxInFlight : FetchRejected(i)
    \/ \E k \in Keys : ChangeTimerFire(k)

SpecPoll == Init /\ [][PollNext]_vars

\* ------------------------------------------------------------------------
\* SpecTrack: the change tracker under a poller that runs one fetch at a time
\* ------------------------------------------------------------------------

\* Each fetch completes before the next tick or Retry starts one; expiry
\* timers fire at any time after they were armed.
TrackNext ==
    \/ fetches = <<>> /\ PollTick
    \/ fetches = <<>> /\ Retry
    \/ \E i \in 1..MaxInFlight, data \in Inventories : FetchResolved(i, data)
    \/ \E i \in 1..MaxInFlight : FetchRejected(i)
    \/ \E k \in Keys : ChangeTimerFire(k)

SpecTrack == Init /\ [][TrackNext]_vars

\* ------------------------------------------------------------------------
\* SpecRefresh: selection, navigation and the gate across refreshes that
\* succeed or fail
\* ------------------------------------------------------------------------

\* The modifier held during a click on a row.
ClickMods == {"plain", "ctrl", "shift"}

\* The operator selects, navigates, searches and requests single kills; the
\* poller applies snapshots or fails.  Completions and expiries are
\* delivered before the operator's next event, one fetch runs at a time.
RefreshNext ==
    \/ ToastTimeout
    \/ \E k \in Keys : ChangeTimerFire(k)
    \/ \E i \in 1..MaxKills, how \in KillHows : KillSettled(i, how, "other")
    \/ Settled /\ fetches = <<>> /\ PollTick
    \/ Settled /\ fetches = <<>> /\ FollowUpFire
    \/ Settled /\ fetches = <<>> /\ Retry
    \/ Settled /\ \E i \in 1..MaxInFlight, data \in Inventories : FetchResolved(i, data)
    \/ Settled /\ \E i \in 1..MaxInFlight : FetchRejected(i)
    \/ Settled /\ \E i \in 1..MaxPorts : ListKill(i)
    \/ Settled /\ KeyKill
    \/ Settled /\ \E q \in Queries : SetQuery(q)
    \/ Settled /\ ArrowDown
    \/ Settled /\ ArrowUp
    \/ Settled /\ \E i \in 1..MaxPorts, mod \in ClickMods : PortClick(i, mod)
    \/ Settled /\ ConfirmTimeout

SpecRefresh == Init /\ [][RefreshNext]_vars

\* ------------------------------------------------------------------------
\* SpecTeardown: unmounting the component while calls and timers are pending
\* ------------------------------------------------------------------------

\* The cleanups of the effects, run when the component unmounts: the poll
\* interval and the change-expiry timers (polling effect), the confirmation
\* timer (auto-cancel effect) and the toast timer are cleared.  Calls in
\* flight and the setTimeout(fetchPorts, 500) follow-ups are not touched.
Teardown ==
    /\ mounted
    /\ mounted' = FALSE
    /\ changeTimers' = <<>>
    /\ confirmTimer' = 0
    /\ toastTimer' = 0
    /\ event' = [op |-> "other", port |-> NULL, was |-> NoKey, asked |-> 0]
    /\ invoked' = <<>>
    /\ UNCHANGED <<state, prevPorts, portChanges, fetches, loading, error,
                   viewVars, pendingKill, pendingBulkKill, askedBulk, killVars,
                   followUps, toast, panelVars, scored, settingsVars>>

\* The interval and the operator act while the component is mounted, the
\* operator asking for a kill when none is in flight; the continuations of
\* calls in flight and the timers still armed run whenever they come due.
TeardownNext ==
    \/ mounted /\ PollTick
    \/ mounted /\ kills = <<>> /\ \E i \in 1..MaxPorts : ListKill(i)
    \/ Teardown
    \/ \E i \in 1..MaxInFlight, data \in Inventories : FetchResolved(i, data)
    \/ \E i \in 1..MaxInFlight : FetchRejected(i)
    \/ \E i \in 1..MaxKills, how \in KillHows : KillSettled(i, how, "other")
    \/ FollowUpFire
    \/ \E k \in Keys : ChangeTimerFire(k)
    \/ ConfirmTimeout
    \/ ToastTimeout

SpecTeardown == Init /\ [][TeardownNext]_vars

\* ------------------------------------------------------------------------
\* Properties of the confirmation gate
\* ------------------------------------------------------------------------

\* The entries of the ranked view that are selected and not protected.
KillableNow ==
    {e \in Range(filteredPorts) : Key(e) \in selectedPorts /\ ~e.is_protected}

\* C1: no step calls kill_process for a protected entry: every call of a
\* step is for an entry with is_protected false, and the calls of a bulk kill
\* are for entries of the ranked view; requestKill on a protected entry
\* leaves pendingKill and pendingBulkKill as they were and issues no call.
C1_ProtectedNeverKilled ==
    [][ /\ \A n \in 1..Len(invoked') : ~invoked'[n].is_protected
        /\ event'.op = "requestBulkKill" =>
               \A n \in 1..Len(invoked') : invoked'[n] \in Range(filteredPorts)
        /\ (event'.op = "requestKill" /\ event'.port.is_protected) =>
               /\ pendingKill' = pendingKill
               /\ pendingBulkKill' = pendingBulkKill
               /\ invoked' = <<>>
               /\ kills' = kills ]_vars

\* requestKill was called on a protected entry while a confirmation was
\* pending, and the confirmation is still pending.
C1_Witness ==
    /\ event.op = "requestKill"
    /\ event.port.is_protected
    /\ pendingKill # NoKey
    /\ invoked = <<>>

C4_AtMostOnePending == ~(pendingKill # NoKey /\ pendingBulkKill)

\* C5: while a confirmation is pending its 3000 ms timer is armed, and no
\* timer is armed otherwise; when the timer fires every pending confirmation
\* is cleared and no call is issued; the request that follows the expiry is
\* a first request and issues no call.
C5_ConfirmationExpires ==
    [][ /\ confirmTimer' =
               (IF pendingKill' # NoKey \/ pendingBulkKill' THEN 3000 ELSE 0)
        /\ event'.op = "ConfirmTimeout" =>
               /\ pendingKill' = NoKey
               /\ ~pendingBulkKill'
               /\ invoked' = <<>>
               /\ kills' = kills
               /\ bulkKills' = bulkKills
        /\ (event.op = "ConfirmTimeout"
                /\ event'.op \in {"requestKill", "requestBulkKill"}) =>
               /\ invoked' = <<>>
               /\ kills' = kills
               /\ bulkKills' = bulkKills ]_vars

\* The timer has just fired on a pending confirmation: nothing is pending,
\* no timer is armed and no kill is in flight.
C5_Witness ==
    /\ event.op = "ConfirmTimeout"
    /\ pendingKill = NoKey
    /\ ~pendingBulkKill
    /\ confirmTimer = 0
    /\ invoked = <<>>
    /\ kills = <<>>
    /\ bulkKills = <<>>

\* C6: the requestBulkKill that confirms (a bulk kill is pending) calls
\* kill_process once for each entry of the ranked view that is selected and
\* not protected, and for nothing else; with no such entry a request issues
\* no call and changes no confirmation; a first request issues no call; the
\* toast of a settled batch counts the killed entries out of the entries of
\* the batch.
C6_BulkKillsKillable ==
    [][ /\ event'.op = "requestBulkKill" =>
               /\ KillableNow = {} =>
                      /\ invoked' = <<>>
                      /\ bulkKills' = bulkKills
                      /\ pendingBulkKill' = pendingBulkKill
               /\ (KillableNow # {} /\ ~pendingBulkKill) =>
                      /\ invoked' = <<>>
                      /\ bulkKills' = bulkKills
                      /\ pendingBulkKill'
               /\ (KillableNow # {} /\ pendingBulkKill) =>
                      /\ Range(invoked') = KillableNow
                      /\ Len(invoked') = Cardinality(KillableNow)
                      /\ bulkKills' = Append(bulkKills, invoked')
                      /\ ~pendingBulkKill'
        /\ Len(bulkKills') < Len(bulkKills) =>
               \E i \in 1..Len(bulkKills) :
                   /\ bulkKills' = RemoveAt(bulkKills, i)
                   /\ toast'.text = "Killed k/n processes"
                   /\ toast'.total = Len(bulkKills[i])
                   /\ toast'.killed \in 0..toast'.total ]_vars

\* A confirmed bulk kill has just run on a selection of two entries of which
\* one is protected: one call was issued.
C6_Witness ==
    /\ event.op = "requestBulkKill"
    /\ Len(invoked) = 1
    /\ Cardinality(selectedPorts) = 2
    /\ \E e \in Range(filteredPorts) : Key(e) \in selectedPorts /\ e.is_protected

\* C7: the calls of a confirmed bulk kill are for the entries that are
\* selected, not protected and in the ranked view when the confirmation
\* runs, whatever they were when the bulk kill was first requested.
C7_KillableAtConfirmTime ==
    (event.op = "requestBulkKill" /\ invoked # <<>>) =>
        \A e \in Entries : (e \in Range(invoked)) <=> (e \in KillableNow)

\* A confirmed bulk kill has just run after the killable entries changed:
\* it issued another number of calls than there were killable entries at
\* the first request.
C7_Witness ==
    /\ event.op = "requestBulkKill"
    /\ invoked # <<>>
    /\ Len(invoked) # event.asked
    /\ Range(invoked) = KillableNow

\* ------------------------------------------------------------------------
\* Properties of the panel, the menu and the poller
\* ------------------------------------------------------------------------

\* C8: a requestKill that makes an entry pending or calls kill_process for
\* it was given an entry of the latest applied snapshot, with the port, pid
\* and protection flag it has there; this includes the requests of the
\* details panel and of the context menu.
C8_RequestUsesCurrentEntry ==
    (event.op = "requestKill"
         /\ (pendingKill = Key(event.port) \/ invoked # <<>>)) =>
        (state # NULL /\ event.port \in Range(state.ports))

\* C9: at most one get_listening_ports call is in flight.
C9_OneFetchInFlight == Len(fetches) <= 1

\* C10: the completion of a fetch that is older than the applied snapshot
\* changes neither the snapshot, prevPorts nor portChanges.
C10_StaleFetchDiscarded ==
    [][ \A i \in 1..Len(fetches), data \in Inventories :
            (fetches[i] /\ FetchResolved(i, data)) =>
                /\ state' = state
                /\ prevPorts' = prevPorts
                /\ portChanges' = portChanges ]_vars

\* ------------------------------------------------------------------------
\* Properties of refreshes
\* ------------------------------------------------------------------------

\* C11: a fetch that fails leaves the snapshot, prevPorts, portChanges, the
\* expiry timers, the selection, the navigated index, the ranked view and
\* the pending confirmation as they were, sets the error message and clears
\* loading; prevPorts always holds the keys of the last applied snapshot, so
\* the next successful poll is compared with it.
C11_FailedFetchKeepsData ==
    [][ /\ (Len(fetches') < Len(fetches) /\ error' # "") =>
               /\ state' = state
               /\ prevPorts' = prevPorts
               /\ portChanges' = portChanges
               /\ changeTimers' = changeTimers
               /\ selectedPorts' = selectedPorts
               /\ selectedIndex' = selectedIndex
               /\ filteredPorts' = filteredPorts
               /\ pendingKill' = pendingKill
               /\ pendingBulkKill' = pendingBulkKill
               /\ confirmTimer' = confirmTimer
               /\ ~loading'
        /\ state' # NULL => prevPorts' = KeysOf(state'.ports) ]_vars

\* A fetch has failed while entries were loaded, one was selected and a
\* kill was pending: all of them are still there.
C11_Witness ==
    /\ error # ""
    /\ ~loading
    /\ state # NULL
    /\ state.ports # <<>>
    /\ selectedPorts # {}
    /\ pendingKill # NoKey
    /\ fetches = <<>>

\* C12: once the component is unmounted no step changes the snapshot,
\* prevPorts, portChanges, the pending confirmation or the toast, and none
\* arms a timer or starts a fetch.
C12_NothingAfterTeardown ==
    [][ ~mounted =>
            /\ state' = state
            /\ prevPorts' = prevPorts
            /\ portChanges' = portChanges
            /\ pendingKill' = pendingKill
            /\ pendingBulkKill' = pendingBulkKill
            /\ toast' = toast
            /\ toastTimer' \in {0, toastTimer}
            /\ confirmTimer' \in {0, confirmTimer}
            /\ followUps' <= followUps
            /\ Len(fetches') <= Len(fetches)
            /\ \A k \in DOMAIN changeTimers' :
                   k \in DOMAIN changeTimers /\ changeTimers'[k] <= changeTimers[k]
      ]_vars

\* ------------------------------------------------------------------------
\* Properties of the change tracker
\* ------------------------------------------------------------------------

\* The step applies the result of a fetch that resolved.
Applied == Len(fetches') < Len(fetches) /\ error' = "" /\ state' # NULL

\* The annotation of key k in a portChanges map m, "stable" when it has none.
Mark(m, k) == IF k \in DOMAIN m THEN m[k] ELSE "stable"

\* C13: when the applied snapshot was empty and the next applied snapshot is
\* not, every entry of the new snapshot is marked new in portChanges.
C13_AllNewAfterEmpty ==
    [][ (Applied /\ state # NULL /\ state.ports = <<>> /\ state'.ports # <<>>) =>
            \A k \in KeysOf(state'.ports) : Mark(portChanges', k) = "new" ]_vars

\* C14: the first snapshot applied after start leaves portChanges empty and
\* arms no expiry timer.
C14_FirstPollNoAnnotations ==
    [][ (Applied /\ state = NULL) =>
            /\ portChanges' = <<>>
            /\ changeTimers' = <<>>
            /\ portChanges = <<>>
            /\ changeTimers = <<>> ]_vars

\* A snapshot with MaxPorts entries is applied, nothing is annotated and no
\* expiry timer is armed: the state the first poll leaves.
C14_Witness ==
    /\ state # NULL
    /\ Len(state.ports) = MaxPorts
    /\ prevPorts = KeysOf(state.ports)
    /\ portChanges = <<>>
    /\ changeTimers = <<>>
    /\ ~loading
    /\ error = ""

\* The number of armed expiry timers of key k in a changeTimers map m.
TimersOf(m, k) == IF k \in DOMAIN m THEN m[k] ELSE 0

C16_ExpiryOnlyOwnAppearance ==
    [][ \A k \in Keys :
          TimersOf(changeTimers', k) < TimersOf(changeTimers, k) =>
              /\ Mark(portChanges, k) = "removed" =>
                     Mark(portChanges', k) = "removed"
              /\ (Mark(portChanges, k) = "new" /\ TimersOf(changeTimers', k) > 0) =>
                     Mark(portChanges', k) = "new" ]_vars

\* C17: after an applied snapshot every key of portChanges is a key of that
\* snapshot or of the snapshot applied before it.
C17_StaleKeysPruned ==
    [][ Applied =>
            \A k \in DOMAIN portChanges' :
                \/ k \in KeysOf(state'.ports)
                \/ state # NULL /\ k \in KeysOf(state.ports) ]_vars

\* ------------------------------------------------------------------------
\* Properties of selection and navigation across refreshes
\* ------------------------------------------------------------------------

\* C18: after an applied snapshot every selected key is the key of an entry
\* of the ranked view.
C18_SelectionWithinView ==
    [][ Applied => selectedPorts' \subseteq KeysOf(filteredPorts') ]_vars

\* The key of the entry that index i designates in the view ports, NoKey
\* when it designates none.
Designated(ports, i) ==
    IF i >= 0 /\ i + 1 <= Len(ports) THEN Key(ports[i + 1]) ELSE NoKey

\* C19: when an applied snapshot or a change of the query changes the
\* ranked view, selectedIndex designates afterwards the entry it designated
\* before if that entry is still in the view, and is -1 otherwise.
C19_IndexFollowsEntry ==
    [][ (filteredPorts' # filteredPorts /\ (Applied \/ searchQuery' # searchQuery)) =>
            IF Designated(filteredPorts, selectedIndex) \in KeysOf(filteredPorts')
            THEN Designated(filteredPorts', selectedIndex') =
                     Designated(filteredPorts, selectedIndex)
            ELSE selectedIndex' = -1 ]_vars

\* ------------------------------------------------------------------------
\* The scoring function on its own
\* ------------------------------------------------------------------------

MaxQueryLen == 2
MaxTargetLen == 3

\* Characters of queries and targets: two letters, one of them in both cases.
ScoreChars == {"a", "A", "b"}

\* filteredPorts returns state.ports before ranking when the query is empty,
\* so fuzzyScore only ever receives a non-empty query.
ScoreQueries == SeqsUpTo(ScoreChars, MaxQueryLen) \ {<<>>}

\* A target is a port number, a pid or a process name; the process name may
\* be empty.
ScoreTargets == SeqsUpTo(ScoreChars, MaxTargetLen)

InitScore ==
    /\ InitApp
    /\ scored \in { [query |-> q, target |-> t, score |-> 0, returned |-> FALSE] :
                     q \in ScoreQueries, t \in ScoreTargets }

\* The call fuzzyScore(query, target) returns.
Score ==
    /\ ~scored.returned
    /\ scored' = [scored EXCEPT !.score = fuzzyScore(scored.query, scored.target),
                                !.returned = TRUE]
    /\ UNCHANGED <<state, prevPorts, portChanges, changeTimers, fetches, loading,
                   error, viewVars, gateVars, killVars, followUps, toastVars,
                   panelVars, invoked, event, mounted, settingsVars>>

ScoreNext == Score

SpecScore == InitScore /\ [][ScoreNext]_vars

\* t contains q as a contiguous substring.
IsSubstring(q, t) ==
    \E i \in 1..(Len(t) - Len(q) + 1) : \A j \in 1..Len(q) : t[i + j - 1] = q[j]

\* The characters of q occur in t in order, at strictly increasing positions.
IsSubsequence(q, t) ==
    \E f \in [1..Len(q) -> 1..Len(t)] :
        /\ \A j \in 1..Len(q) : t[f[j]] = q[j]
        /\ \A j, k \in 1..Len(q) : j < k => f[j] < f[k]

\* C20: for every non-empty query and every target, compared in lower case:
\* a target containing the query scores at least 100; otherwise, a target
\* having the query as an in-order subsequence scores 10 per character of the
\* query; otherwise the score is 0.
C20_ScoreCases ==
    scored.returned =>
        LET q == ToLower(scored.query)
            t == ToLower(scored.target)
        IN  IF IsSubstring(q, t) THEN scored.score >= 100 * ScoreUnit
            ELSE IF IsSubsequence(q, t) THEN scored.score = 10 * Len(q) * ScoreUnit
            ELSE scored.score = 0

\* A call has returned for a query that is a subsequence of the target but
\* not a substring of it, and only so once case is ignored.
C20_Witness ==
    /\ scored.returned
    /\ ~IsSubstring(ToLower(scored.query), ToLower(scored.target))
    /\ IsSubsequence(ToLower(scored.query), ToLower(scored.target))
    /\ ~IsSubsequence(scored.query, scored.target)
    /\ scored.score = 10 * Len(scored.query) * ScoreUnit

\* ------------------------------------------------------------------------
\* SpecRank: the ranked view of one snapshot under changing queries
\* ------------------------------------------------------------------------

RankEntry(p, q) ==
    [port |-> p, pid |-> q, is_protected |-> FALSE, process_name |-> ProcessName(q)]

\* Entries whose three candidate strings tell the queries below apart.
RankEntries ==
    {RankEntry(1, 1), RankEntry(1, 2), RankEntry(101, 1), RankEntry(3000, 10)}

RankInventories == InventoriesOver(RankEntries)

\* What the operator types: a digit, a non-contiguous pair of digits, a pid,
\* a port prefix, a letter in upper case, a process name, and a string that
\* occurs nowhere.
RankQueries ==
    { <<"1">>, <<"1", "1">>, <<"1", "0">>, <<"3", "0", "0">>, <<"B">>,
      <<"a", "b">>, <<"x", "y", "z">> }

\* The first get_listening_ports call resolves; the operator edits the query.
RankNext ==
    \/ \E data \in RankInventories : state = NULL /\ FetchResolved(1, data)
    \/ \E q \in RankQueries \cup {<<>>} : SetQuery(q)

SpecRank == Init /\ [][RankNext]_vars

\* The three strings an entry is matched on.
Candidates(p) == {NumStr(p.port), p.process_name, NumStr(p.pid)}

\* C21: the score of an entry is the greatest of twice the score of its port
\* number, the score of its process name and the score of its pid; and, for a
\* non-empty query, an entry of the snapshot is in the ranked view exactly
\* when the query is, ignoring case, an in-order subsequence of one of these
\* three strings.
C21_ScoreIsMaxOfThree ==
    (state # NULL /\ searchQuery # <<>>) =>
        \A i \in 1..Len(state.ports) :
            LET p == state.ports[i]
                byPort == 2 * fuzzyScore(searchQuery, NumStr(p.port))
                byName == fuzzyScore(searchQuery, p.process_name)
                byPid == fuzzyScore(searchQuery, NumStr(p.pid))
                m == fuzzyMatch(searchQuery, p)
            IN  /\ m \in {byPort, byName, byPid}
                /\ m >= byPort /\ m >= byName /\ m >= byPid
                /\ (p \in Range(filteredPorts)) <=>
                       (\E t \in Candidates(p) :
                           IsSubsequence(ToLower(searchQuery), ToLower(t)))

\* The snapshot is the entry on port 3000 with pid 10 and the query is "300":
\* the entry is in the view with a score of at least 100.
C21_Witness ==
    /\ state # NULL
    /\ state.ports = <<RankEntry(3000, 10)>>
    /\ searchQuery = <<"3", "0", "0">>
    /\ filteredPorts = <<RankEntry(3000, 10)>>
    /\ fuzzyMatch(searchQuery, RankEntry(3000, 10)) >= 100 * ScoreUnit

\* Position of the entry with key k in the snapshot.
SnapshotPos(k) == CHOOSE i \in 1..Len(state.ports) : Key(state.ports[i]) = k

\* C22: for a non-empty query the ranked view holds exactly the entries of
\* the snapshot whose score is positive, each once, in descending order of
\* score, entries of equal score in their snapshot order.
C22_PositiveScoresDescendingStable ==
    (state # NULL /\ searchQuery # <<>>) =>
        /\ Range(filteredPorts) =
               {p \in Range(state.ports) : fuzzyMatch(searchQuery, p) > 0}
        /\ DistinctKeys(filteredPorts)
        /\ \A i \in 1..(Len(filteredPorts) - 1) :
               LET a == filteredPorts[i]
                   b == filteredPorts[i + 1]
               IN  \/ fuzzyMatch(searchQuery, a) > fuzzyMatch(searchQuery, b)
                   \/ /\ fuzzyMatch(searchQuery, a) = fuzzyMatch(searchQuery, b)
                      /\ SnapshotPos(Key(a)) < SnapshotPos(Key(b))

\* Both entries of the snapshot match the query and the view shows them in
\* the opposite order.
C22_Witness ==
    /\ state # NULL /\ searchQuery # <<>>
    /\ Len(state.ports) = 2
    /\ filteredPorts = <<state.ports[2], state.ports[1]>>

\* C23: with the empty query the ranked view is the snapshot itself: the
\* same entries in the same order.
C23_EmptyQueryIsIdentity ==
    (state # NULL /\ searchQuery = <<>>) => filteredPorts = state.ports

\* A snapshot of two entries that some query reorders is shown in snapshot
\* order once the query has been erased.
C23_Witness ==
    /\ state # NULL /\ searchQuery = <<>>
    /\ Len(state.ports) = 2
    /\ filteredPorts = state.ports
    /\ \E q \in RankQueries : Ranked(state, q) = <<state.ports[2], state.ports[1]>>

\* ------------------------------------------------------------------------
\* SpecCommand: the command line over a changing inventory
\* ------------------------------------------------------------------------

\* What the operator types before Enter: a partial keyword, keywords with
\* characters appended, commands of the grammar (one with blanks and upper
\* case around it), and bare numbers.
CommandLines ==
    { <<"k", "i">>,
      <<"e", "x", "p", "o", "r", "t", "x">>,
      <<"k", "i", "l", "l", " ", "1", "x">>,
      <<" ", "K", "I", "L", "L", " ", "1", " ">>,
      <<"k", "i", "l", "l", " ", "9">>,
      <<"e", "x", "p", "o", "r", "t">>,
      <<"r">>,
      <<"1">>,
      <<"9">> }

\* Completions and expiries are delivered before the operator's next event;
\* one inventory fetch runs at a time unless the refresh command starts
\* another.
CommandNext ==
    \/ ToastTimeout
    \/ \E k \in Keys : ChangeTimerFire(k)
    \/ \E i \in 1..MaxKills, how \in KillHows : KillSettled(i, how, "other")
    \/ Settled /\ fetches = <<>> /\ PollTick
    \/ Settled /\ fetches = <<>> /\ FollowUpFire
    \/ Settled /\ \E i \in 1..MaxInFlight, data \in Inventories : FetchResolved(i, data)
    \/ Settled /\ \E c \in CommandLines : SetQuery(c)
    \/ Settled /\ InputEnter
    \/ Settled /\ ConfirmTimeout

SpecCommand == Init /\ [][CommandNext]_vars

AllDigits(s) == s # <<>> /\ \A i \in 1..Len(s) : IsDigit(s[i])

\* `kill <integer>`
IsKillForm(t) == StartsWith(t, StrKillSp) /\ AllDigits(Slice(t, 5))

StrExportJson == StrExport \o <<" ", "j", "s", "o", "n">>
StrExportCsv == StrExport \o <<" ", "c", "s", "v">>

\* The forms of the command grammar.
IsGrammarForm(t) ==
    \/ t \in {StrAdmin, StrSudo, StrRefresh, StrR, StrClear, StrC, StrSettings,
               StrConfig, StrHelp, StrQuestion, StrExport, StrExportJson,
               StrExportCsv}
    \/ IsKillForm(t)

\* C24: Enter on a command line that, trimmed and lower-cased, is not a form
\* of the grammar is no match: the query is not cleared, no fetch is started
\* and the selection is kept; and when the line is not a number either,
\* nothing is shown and the gate and the kills are left alone.
C24_OnlyGrammarFormsMatch ==
    [][ (InputEnter /\ searchQuery # <<>>
            /\ ~IsGrammarForm(ToLower(Trim(searchQuery)))) =>
            /\ UNCHANGED <<searchQuery, fetches, selectedPorts>>
            /\ ParseInt(searchQuery).isNaN =>
                   UNCHANGED <<toastVars, gateVars, killVars>> ]_vars

\* The port a command line asks to kill: n of `kill n`, or of a bare n.
AskedPort ==
    LET t == ToLower(Trim(searchQuery))
    IN  IF IsKillForm(t) THEN DigitsValue(Slice(t, 5), 0)
        ELSE IF AllDigits(searchQuery) THEN DigitsValue(searchQuery, 0)
        ELSE 0 - 1

NoEntryOnAskedPort ==
    /\ state # NULL
    /\ AskedPort >= 0
    /\ \A i \in 1..Len(state.ports) : state.ports[i].port # AskedPort

\* C25: Enter on `kill n` or on a bare n, when the snapshot has no entry on
\* port n, shows the "port not in use" error toast, invokes kill_process not
\* once and leaves the confirmation gate as it was.
C25_PortNotInUse ==
    [][ (InputEnter /\ NoEntryOnAskedPort) =>
            /\ toast' = Message("error", "Port is not in use", 0, 0)
            /\ invoked' = <<>>
            /\ kills' = kills
            /\ UNCHANGED gateVars ]_vars

\* A confirmation is pending for an entry, the line asks for a port without
\* entry, and the diagnostic is on screen with the line consumed or kept.
C25_Witness ==
    /\ pendingKill # NoKey
    /\ toast = Message("error", "Port is not in use", 0, 0)
    /\ state # NULL /\ state.ports # <<>>
    /\ \A i \in 1..Len(state.ports) : state.ports[i].port # 9
    /\ invoked = <<>>
    /\ event.op = "other"

\* ------------------------------------------------------------------------
\* SpecKill: single kills whose outcome arrives while the operator goes on
\* ------------------------------------------------------------------------

\* Messages kill_process reports or throws, one of each class the code tells
\* apart.
KillMsgs == {"other", "Access is denied", "process has exited", "not found"}

\* The port lists of SpecKill: entries the operator can kill.
KillInventories == InventoriesOver({e \in Entries : ~e.is_protected})

\* The operator moves along the rows with the arrow keys and presses Delete;
\* a kill_process call settles whenever the collaborator answers.
KillNext ==
    \/ ToastTimeout
    \/ ConfirmTimeout
    \/ \E k \in Keys : ChangeTimerFire(k)
    \/ \E i \in 1..MaxKills, how \in KillHows, msg \in KillMsgs : KillSettled(i, how, msg)
    \/ fetches = <<>> /\ PollTick
    \/ fetches = <<>> /\ FollowUpFire
    \/ \E i \in 1..MaxInFlight, data \in KillInventories : FetchResolved(i, data)
    \/ ArrowDown
    \/ KeyKill

SpecKill == Init /\ [][KillNext]_vars

\* C26: when a kill_process call of executeKill settles, whatever its
\* outcome, killingPort is null afterwards and the entry the call was for is
\* not the pending token.
C26_KillCompletionClearsGate ==
    [][ \A i \in 1..Len(kills) :
            kills' = RemoveAt(kills, i) =>
                /\ killingPort' = NoPort
                /\ pendingKill' # Key(kills[i]) ]_vars

StrAlreadyExited == "Process has already exited. Refreshing port list..."

\* C27: when a single kill fails because the process has already exited,
\* thrown or reported with success = false, a follow-up fetch is scheduled.
C27_ExitedKillRefreshes ==
    [][ (Len(kills') < Len(kills)
            /\ toast' = Message("error", StrAlreadyExited, 0, 0)) =>
            followUps' = followUps + 1 ]_vars

\* ------------------------------------------------------------------------
\* SpecSelect: clicks on the rows of the ranked view of one snapshot
\* ------------------------------------------------------------------------

MaxRows == 3

SelectEntries == {RankEntry(1, 1), RankEntry(1, 2), RankEntry(101, 1)}

SelectInventories == {s \in SeqsUpTo(SelectEntries, MaxRows) : DistinctKeys(s)}

\* Queries that shorten and reorder the view.
SelectQueries == {<<>>, <<"1", "1">>, <<"2">>}

\* The first get_listening_ports call resolves; the operator edits the
\* query, moves the anchor with the arrow keys and clicks rows with or
\* without a modifier.
SelectNext ==
    \/ \E data \in SelectInventories : state = NULL /\ FetchResolved(1, data)
    \/ \E q \in SelectQueries : SetQuery(q)
    \/ \E i \in 1..MaxRows, mod \in ClickMods : PortClick(i, mod)
    \/ ArrowDown
    \/ ArrowUp

SpecSelect == Init /\ [][SelectNext]_vars

\* C28: a click without modifier on the row at index i of the ranked view
\* makes the selection the singleton of that row's key and the anchor i.
C28_PlainClickSelectsOne ==
    [][ \A i \in 1..MaxRows :
            PortClick(i, "plain") =>
                /\ selectedPorts' = {Key(filteredPorts[i])}
                /\ selectedIndex' = i - 1 ]_vars

\* A row other than the first is the only one selected and is the anchor,
\* in a view of several rows.
C28_Witness ==
    /\ selectedIndex >= 1
    /\ selectedIndex + 1 <= Len(filteredPorts)
    /\ selectedPorts = {Key(filteredPorts[selectedIndex + 1])}

\* C29: a Ctrl click on a row adds its key to the selection when absent and
\* removes it when present, keeps every other selected key and the anchor;
\* toggling the same key once more gives the selection back.
C29_ToggleClick ==
    [][ \A i \in 1..MaxRows :
            PortClick(i, "ctrl") =>
                LET k == Key(filteredPorts[i])
                IN  /\ (k \in selectedPorts') <=> (k \notin selectedPorts)
                    /\ selectedPorts' \ {k} = selectedPorts \ {k}
                    /\ selectedIndex' = selectedIndex
                    /\ Toggled(selectedPorts', k) = selectedPorts ]_vars

\* Rows are selected that are not the anchor's, next to an anchor: only
\* toggle clicks give such a selection of two rows apart.
C29_Witness ==
    /\ Len(filteredPorts) = 3
    /\ selectedIndex = 1
    /\ selectedPorts = {Key(filteredPorts[1]), Key(filteredPorts[3])}

\* The keys at the 0-based positions lo..hi of the view.
KeysBetween(ports, lo, hi) ==
    {Key(ports[n + 1]) : n \in {m \in lo..hi : m + 1 <= Len(ports)}}

\* C30: a Shift click on the row at index j with an anchor a >= 0 makes the
\* selection the keys at positions min(a, j)..max(a, j) of the ranked view
\* and keeps the anchor; without anchor it selects no range: the clicked row
\* alone is selected.
C30_RangeClick ==
    [][ \A i \in 1..MaxRows :
            PortClick(i, "shift") =>
                IF selectedIndex >= 0
                THEN /\ selectedPorts' =
                          KeysBetween(filteredPorts,
                                      Min2(selectedIndex, i - 1),
                                      Max2(selectedIndex, i - 1))
                     /\ selectedIndex' = selectedIndex
                ELSE selectedPorts' = {Key(filteredPorts[i])} ]_vars

\* The three rows of the view are selected and the anchor is the last row:
\* the range from the anchor up to the first row.
C30_Witness ==
    /\ Len(filteredPorts) = 3
    /\ selectedIndex = 2
    /\ selectedPorts = KeysOf(filteredPorts)

\* ------------------------------------------------------------------------
\* Properties of cancelling
\* ------------------------------------------------------------------------

\* C31: the Escape key pressed while a single or a bulk confirmation is
\* pending clears both tokens, calls kill_process not once, and leaves the
\* snapshot, the selection, the query, the details panel and the context
\* menu as they were.
C31_EscapeOnlyCancels ==
    [][ (Escape /\ (pendingKill # NoKey \/ pendingBulkKill)) =>
            /\ pendingKill' = NoKey
            /\ pendingBulkKill' = FALSE
            /\ invoked' = <<>>
            /\ UNCHANGED <<state, viewVars, panelVars>> ]_vars

\* ------------------------------------------------------------------------
\* SpecNav: keyboard navigation over a changing view
\* ------------------------------------------------------------------------

\* The operator presses the arrow keys, in the list or in the search input,
\* clicks rows and edits the query, while the poller replaces the inventory,
\* one fetch at a time.
NavNext ==
    \/ \E k \in Keys : ChangeTimerFire(k)
    \/ fetches = <<>> /\ PollTick
    \/ \E i \in 1..MaxInFlight, data \in Inventories : FetchResolved(i, data)
    \/ \E q \in Queries : SetQuery(q)
    \/ \E i \in 1..MaxPorts : PortClick(i, "plain")
    \/ ArrowDown
    \/ ArrowUp
    \/ InputArrowDown

SpecNav == Init /\ [][NavNext]_vars

\* C32: the navigated index stays within the ranked view:
\* -1 <= selectedIndex <= Len(filteredPorts) - 1.
C32_IndexWithinView ==
    /\ 0 - 1 <= selectedIndex
    /\ selectedIndex <= Len(filteredPorts) - 1

\* C36: one ArrowDown pressed in the search input over a non-empty ranked
\* view leaves the navigated index on the first entry.
C36_InputArrowDownSelectsFirst ==
    [][ (event'.op = "InputArrowDown" /\ filteredPorts # <<>>) =>
            selectedIndex' = 0 ]_vars

\* ------------------------------------------------------------------------
\* Properties of overlapping kills
\* ------------------------------------------------------------------------

\* C33: no two kill_process calls for the same (port, pid) are in flight at
\* once.
C33_NoKillWhileSameInFlight ==
    \A i, j \in 1..Len(kills) : i # j => Key(kills[i]) # Key(kills[j])

\* C34: while a single kill_process call is in flight, killingPort is the
\* port of a call in flight.
C34_KillingPortNamesInFlight ==
    kills # <<>> =>
        /\ killingPort # NoPort
        /\ \E i \in 1..Len(kills) : kills[i].port = killingPort

\* ------------------------------------------------------------------------
\* SpecLookup: a port number resolved by the grid and by the command line
\* ------------------------------------------------------------------------

\* Port lists in which one port number may be held by two processes.
LookupInventories ==
    InventoriesOver({RankEntry(1, 1), RankEntry(1, 2), RankEntry(2, 2)})

\* A bare port number and the kill command for it.
LookupQueries == {<<"1">>, <<"k", "i", "l", "l", " ", "1">>}

\* The first get_listening_ports call resolves; the operator asks for kills
\* through the cards of the grid and through the command line.
LookupNext ==
    \/ ToastTimeout
    \/ ConfirmTimeout
    \/ \E i \in 1..MaxKills, how \in KillHows : KillSettled(i, how, "other")
    \/ \E data \in LookupInventories : state = NULL /\ FetchResolved(1, data)
    \/ Settled /\ \E q \in LookupQueries : SetQuery(q)
    \/ Settled /\ InputEnter
    \/ Settled /\ \E cp \in GridPorts : GridKill(cp)

SpecLookup == Init /\ [][LookupNext]_vars

\* C35: for every port number of the grid that the snapshot holds, the entry
\* the grid resolves (portMap) is the entry the command line resolves (find).
C35_GridAndCommandAgree ==
    state # NULL =>
        \A cp \in GridPorts :
            PortMapGet(state, cp) = FindByPort(state.ports, cp)

\* ------------------------------------------------------------------------
\* SpecToast: toasts replaced, dismissed and expiring
\* ------------------------------------------------------------------------

\* Kills requested from the rows settle with success or failure, each
\* showing a toast; the operator dismisses toasts; timers fire.
ToastNext ==
    \/ ToastTimeout
    \/ DismissToast
    \/ ConfirmTimeout
    \/ \E k \in Keys : ChangeTimerFire(k)
    \/ \E i \in 1..MaxKills, how \in KillHows : KillSettled(i, how, "other")
    \/ fetches = <<>> /\ FollowUpFire
    \/ \E i \in 1..MaxInFlight, data \in KillInventories : FetchResolved(i, data)
    \/ \E i \in 1..MaxPorts : ListKill(i)

SpecToast == Init /\ [][ToastNext]_vars

\* C37: the one toast timer that can be pending is the timer of the toast on
\* screen: 5000 ms under an error toast, 3000 ms under a success toast; so a
\* toast is cleared by its own timer or by the operator, never by the timer
\* of an earlier toast.
C37_TimerBelongsToToast ==
    /\ toast # NULL =>
           toastTimer = (IF toast.type = "error" THEN ToastErrorMs ELSE ToastSuccessMs)
    /\ toastTimer \in {0, ToastErrorMs, ToastSuccessMs}

\* An error toast is on screen under its own timer while the follow-up fetch
\* of an earlier, successful kill (which showed a success toast) is pending.
C37_Witness ==
    /\ toast # NULL
    /\ toast.type = "error"
    /\ toastTimer = ToastErrorMs
    /\ followUps > 0

\* ------------------------------------------------------------------------
\* SpecPrecede: contiguous matches against scattered matches
\* ------------------------------------------------------------------------

StrNine == <<"a", "b", "c", "d", "e", "f", "g", "h", "i">>

\* Entries at the two ends of each kind of match: a five-digit port and a
\* ten-letter name that hold a query only scattered, and long names that
\* hold it contiguously.
PrecedeEntries ==
    { [port |-> 10203, pid |-> 7, is_protected |-> FALSE,
       process_name |-> <<"z", "z">>],
      [port |-> 8, pid |-> 9, is_protected |-> FALSE,
       process_name |-> <<"n", "o", "d", "e", "-", "1", "0", "2", "3", "-", "x", "y">>],
      [port |-> 80, pid |-> 5, is_protected |-> FALSE,
       process_name |-> <<"a", "b", "c", "d", "X", "e", "f", "g", "h", "i">>],
      [port |-> 81, pid |-> 6, is_protected |-> FALSE,
       process_name |-> <<"s", "v", "c", "-">> \o StrNine \o <<"-", "h", "o", "s", "t">>] }

\* Queries of one to nine characters.
PrecedeQueries ==
    { <<>>, <<"1", "0", "2", "3">>, StrNine, <<"1", "0">>, <<"a", "i">>,
      <<"3">>, <<"e", "i">>, <<"0", "3">> }

\* The first get_listening_ports call resolves; the operator edits the query.
PrecedeNext ==
    \/ \E data \in InventoriesOver(PrecedeEntries) :
           state = NULL /\ FetchResolved(1, data)
    \/ \E q \in PrecedeQueries : SetQuery(q)

SpecPrecede == Init /\ [][PrecedeNext]_vars

\* The query is, ignoring case, a contiguous substring of one of the three
\* strings of the entry.
ContiguousMatch(p) ==
    \E t \in Candidates(p) : IsSubstring(ToLower(searchQuery), ToLower(t))

\* C38: for a non-empty query of fewer than 10 characters, every entry of
\* the ranked view that holds the query contiguously in its port number,
\* process name or pid comes before every entry that holds it only as a
\* scattered subsequence.
C38_ContiguousBeforeScattered ==
    (state # NULL /\ searchQuery # <<>> /\ Len(searchQuery) < 10) =>
        \A i, j \in 1..Len(filteredPorts) :
            (ContiguousMatch(filteredPorts[i]) /\ ~ContiguousMatch(filteredPorts[j]))
                => i < j

\* The snapshot lists a scattered match of a nine-character query before a
\* contiguous one and the view shows them the other way round.
C38_Witness ==
    /\ state # NULL
    /\ Len(searchQuery) = 9
    /\ Len(state.ports) = 2
    /\ filteredPorts = <<state.ports[2], state.ports[1]>>
    /\ ContiguousMatch(filteredPorts[1])
    /\ ~ContiguousMatch(filteredPorts[2])

\* ------------------------------------------------------------------------
\* Properties of error and loading
\* ------------------------------------------------------------------------

\* C39: a fetch that resolves clears error, a fetch that is rejected sets
\* it, and no other step writes it, so error is set exactly when the latest
\* completed fetch failed; every completion ends loading, loading holds only
\* while no fetch has completed, and it never becomes true again.
C39_ErrorTracksLatestFetch ==
    [][ /\ (\E i \in 1..MaxInFlight, data \in Inventories : FetchResolved(i, data))
            => (error' = "" /\ ~loading')
        /\ (\E i \in 1..MaxInFlight : FetchRejected(i))
            => (error' # "" /\ ~loading')
        /\ Len(fetches') >= Len(fetches) => UNCHANGED <<error, loading>>
        /\ loading' => (loading /\ state' = NULL /\ error' = "") ]_vars

\* A fetch has failed after an earlier one succeeded, while one more is
\* still in flight.
C39_Witness ==
    /\ error # ""
    /\ ~loading
    /\ state # NULL
    /\ Len(fetches) = 1

\* ------------------------------------------------------------------------
\* SpecSettings: the settings panel and the custom common-port list
\* ------------------------------------------------------------------------

appVars == <<pollVars, fetches, viewVars, gateVars, killVars, followUps,
             toastVars, panelVars>>

\* The settings button of the header: setShowSettings(true) mounts the panel.
OpenSettings ==
    /\ NoOverlay
    /\ showSettings' = TRUE
    /\ settingsPorts' = InitialPorts
    /\ Record("OpenSettings", NULL, <<>>)
    /\ UNCHANGED <<appVars, customPorts, storedPorts, savedPorts>>

\* The Add button with newPort and newDesc as typed.
addPort(newPort, newDesc) ==
    LET portNum == ParseInt(newPort)
        refused == \/ portNum.isNaN
                   \/ portNum.value < 1
                   \/ portNum.value > 65535
                   \/ \E i \in 1..Len(settingsPorts) :
                          settingsPorts[i].port = portNum.value
    IN  /\ showSettings
        /\ settingsPorts' =
              IF refused THEN settingsPorts
              ELSE Append(settingsPorts,
                          CommonPort(portNum.value,
                                     IF newDesc # "" THEN newDesc ELSE "Custom"))
        /\ Record("addPort", NULL, <<>>)
        /\ UNCHANGED <<appVars, showSettings, customPorts, storedPorts, savedPorts>>

\* The remove button of a row: ports.filter(p => p.port !== port).
removePort(port) ==
    /\ showSettings
    /\ \E i \in 1..Len(settingsPorts) : settingsPorts[i].port = port
    /\ settingsPorts' = SelectSeq(settingsPorts, LAMBDA p : p.port # port)
    /\ Record("removePort", NULL, <<>>)
    /\ UNCHANGED <<appVars, showSettings, customPorts, storedPorts, savedPorts>>

\* The Reset button.
resetToDefault ==
    /\ showSettings
    /\ settingsPorts' = COMMON_PORTS
    /\ Record("resetToDefault", NULL, <<>>)
    /\ UNCHANGED <<appVars, showSettings, customPorts, storedPorts, savedPorts>>

\* The Save button: handleSave, then App's onSave, which unmounts the panel.
\* isDefault: same length, and the same port in every position.
handleSave ==
    LET isDefault ==
            /\ Len(settingsPorts) = Len(COMMON_PORTS)
            /\ \A i \in 1..Len(settingsPorts) :
                   settingsPorts[i].port = COMMON_PORTS[i].port
        passed == IF isDefault THEN <<>> ELSE settingsPorts
    IN  /\ showSettings
        /\ customPorts' = passed
        /\ storedPorts' = saveCustomPorts(passed)
        /\ showSettings' = FALSE
        /\ settingsPorts' = <<>>
        /\ savedPorts' = settingsPorts
        /\ Record("handleSave", NULL, <<>>)
        /\ UNCHANGED appVars

\* The close and Cancel buttons: onClose.
CloseSettings ==
    /\ showSettings
    /\ showSettings' = FALSE
    /\ settingsPorts' = <<>>
    /\ Record("onClose", NULL, <<>>)
    /\ UNCHANGED <<appVars, customPorts, storedPorts, savedPorts>>

\* The application is started again: customPorts is loaded from the stored
\* item.  In the specification below everything else still has its initial
\* value.
Relaunch ==
    /\ customPorts' = loadCustomPorts
    /\ showSettings' = FALSE
    /\ settingsPorts' = <<>>
    /\ Record("mount", NULL, <<>>)
    /\ UNCHANGED <<appVars, storedPorts, savedPorts>>

\* What the user types into the panel's two inputs.
NewPorts == {<<>>, NumStr(0), NumStr(5173), NumStr(9000), NumStr(65536)}
NewDescs == {"", "Vite"}

\* The rows whose remove button the user clicks: the first and the last.
RemovedRows ==
    {settingsPorts[i].port : i \in {1, Len(settingsPorts)} \cap DOMAIN settingsPorts}

SettingsNext ==
    \/ OpenSettings
    \/ \E newPort \in NewPorts, newDesc \in NewDescs : addPort(newPort, newDesc)
    \/ \E port \in RemovedRows : removePort(port)
    \/ resetToDefault
    \/ handleSave
    \/ CloseSettings
    \/ Escape
    \/ Relaunch

SpecSettings == Init /\ [][SettingsNext]_vars

\* C40: the grid shows the list most recently saved from the panel when that
\* list is non-empty and differs from the defaults, and COMMON_PORTS
\* otherwise; it is never empty; and loading returns what was saved.
C40_GridShowsSavedList ==
    /\ allPorts = IF savedPorts # <<>> /\ savedPorts # COMMON_PORTS
                  THEN savedPorts ELSE COMMON_PORTS
    /\ allPorts # <<>>
    /\ loadCustomPorts = customPorts

====
